---------------------------- MODULE Spec2Model ----------------------------
(***************************************************************************)
(* A model of the ElevenLabs Polyglot TTS Studio: the two proxy endpoints  *)
(* (POST /api/synthesize, GET /api/voices), the provider client, the       *)
(* validation schema, the process configuration and the Studio UI.         *)
(*                                                                         *)
(* Encodings.                                                              *)
(*  - A JSON value is a tagged record: Absent (undefined / key missing),   *)
(*    Null, Str(s), Num(n), Text(len).  A script is kept by its length     *)
(*    only (Text), every rule about it in the sources reads text.length.   *)
(*  - A JSON number is kept in hundredths: Num(25) is 0.25, Num(100) is 1. *)
(*    The cut points 0.25 / 0.75 and the range [0,1] fall on the grid.     *)
(*  - Messages are strings; includes() is a substring search.              *)
(*  - The repository holds two generations of the route handlers and of    *)
(*    the Studio component; the variable generation says which one serves. *)
(***************************************************************************)
EXTENDS Integers, Sequences, FiniteSets, TLC

VARIABLES
    generation,     \* "current" | "legacy": the generation of the sources that serves
    processEnv,     \* process.env, as read by getServerEnv
    cachedEnv,      \* lib/env.ts: the module-level cachedEnv (NoEnv is null)
    request,        \* the request a proxy endpoint (or a direct caller) handled last
    response,       \* the response it returned
    clientCall,     \* the input the handler passed to the provider client, or NoCall
    outbound,       \* the request the provider client sent to the provider, or NoCall
    thrown,         \* the failure the provider client raised for this request, or NoError
    logged          \* what the handler wrote to the console for this request

serverVars == <<generation, processEnv, cachedEnv, request, response, clientCall,
                outbound, thrown, logged>>

VARIABLES
    text,            \* TtsStudio state: the script, a Script
    language,        \* the language of the form
    voices,          \* the voice list
    selectedVoiceId, \* the selected voice ("" is none)
    audioSrc,        \* the preview source: Null or an object URL
    history,         \* the history list, newest first
    isLoading,
    error,           \* Null or Str(message)
    audioElement,    \* the <audio> of the preview: attached, its src, the source it
                     \* holds (currentSrc), the source played last
    submission,      \* the handleSubmit call in progress with the values it closed over
    loads,           \* the loadVoices runs whose /api/voices fetch is in flight
    pendingPlays,    \* playback promises (legacy: play timers) not yet settled
    succeeded,       \* what each submission with an OK response submitted, oldest first
    inFlight,        \* the /api/synthesize requests of the form awaiting their response
    edits            \* how many times the user changed the script or the voice

uiVars == <<text, language, voices, selectedVoiceId, audioSrc, history, isLoading, error,
            audioElement, submission, loads, pendingPlays, succeeded, inFlight, edits>>

VARIABLES
    audioRef,        \* useAudioPlayer: audioRef.current, Null or the attached element
    invocation,      \* the library call made last, with its arguments, or NoInvocation
    outcome          \* what that call returned, or NoOutcome

libVars == <<audioRef, invocation, outcome>>

vars == <<serverVars, uiVars, libVars>>

-----------------------------------------------------------------------------
(* JSON values *)

Absent == [t |-> "absent"]
Null == [t |-> "null"]
Str(s) == [t |-> "string", v |-> s]
Num(n) == [t |-> "number", v |-> n]
Text(n) == [t |-> "string", len |-> n]

IsStr(x) == x.t = "string"
IsNum(x) == x.t = "number"

\* typeof-style name zod prints in "Expected string, received <type>"
ReceivedType(x) ==
    CASE x.t = "absent" -> "undefined"
      [] x.t = "null" -> "null"
      [] x.t = "string" -> "string"
      [] x.t = "number" -> "number"
      [] OTHER -> "object"

-----------------------------------------------------------------------------
(* lib/languages.ts *)

LANGUAGE_OPTIONS ==
    << "auto", "he", "en", "es", "fr", "de", "it", "pt", "ru", "ja", "ko", "zh",
       "ar", "hi", "cs", "da", "fi", "hu", "nl", "pl", "sv", "tr", "uk" >>

LanguageCodes == { LANGUAGE_OPTIONS[i] : i \in 1..Len(LANGUAGE_OPTIONS) }

-----------------------------------------------------------------------------
(* Strings *)

\* String.prototype.includes
includes(s, needle) ==
    \E i \in 1..(Len(s) - Len(needle) + 1) : SubSeq(s, i, i + Len(needle) - 1) = needle

Min(a, b) == IF a <= b THEN a ELSE b
Max(a, b) == IF a >= b THEN a ELSE b

-----------------------------------------------------------------------------
(* lib/env.ts *)

NoEnv == [set |-> FALSE]

\* Number.parseInt(val, 10) on the strings the model puts in the environment;
\* NaN for a string with no leading digits.  The result is in hundredths.
ParseInt(s) ==
    CASE s = "0" -> [nan |-> FALSE, v |-> 0]
      [] s = "1" -> [nan |-> FALSE, v |-> 100]
      [] s = "2" -> [nan |-> FALSE, v |-> 200]
      [] s = "3" -> [nan |-> FALSE, v |-> 300]
      [] OTHER -> [nan |-> TRUE, v |-> 0]

\* the preprocess step of ELEVENLABS_OPTIMIZE_LATENCY
PreprocessLatency(val) ==
    IF IsStr(val) /\ Len(val.v) > 0
    THEN IF ParseInt(val.v).nan THEN Absent ELSE Num(ParseInt(val.v).v)
    ELSE val

\* a schema without the min(1) on the key
envSchema_AnyKey(penv) ==
    LET key == penv.ELEVENLABS_API_KEY
        model == IF penv.ELEVENLABS_MODEL_ID = Absent
                 THEN Str("eleven_multilingual_v2")
                 ELSE penv.ELEVENLABS_MODEL_ID
        rawLat == penv.ELEVENLABS_OPTIMIZE_LATENCY
        lat == PreprocessLatency(rawLat)
        keyOk == IsStr(key)
        modelOk == IsStr(model) /\ Len(model.v) >= 1
        latOk == rawLat = Absent \/ (IsNum(lat) /\ lat.v >= 0 /\ lat.v <= 200)
    IN  IF keyOk /\ modelOk /\ latOk
        THEN [success |-> TRUE,
              data |-> [set |-> TRUE,
                        ELEVENLABS_API_KEY |-> key.v,
                        ELEVENLABS_MODEL_ID |-> model.v,
                        ELEVENLABS_OPTIMIZE_LATENCY |-> IF rawLat = Absent THEN Absent ELSE lat]]
        ELSE [success |-> FALSE, data |-> NoEnv]

\* envSchema.safeParse of the three variables: [success, data]
envSchema(penv) ==
    LET key == penv.ELEVENLABS_API_KEY
        model == IF penv.ELEVENLABS_MODEL_ID = Absent
                 THEN Str("eleven_multilingual_v2")
                 ELSE penv.ELEVENLABS_MODEL_ID
        rawLat == penv.ELEVENLABS_OPTIMIZE_LATENCY
        lat == PreprocessLatency(rawLat)
        keyOk == IsStr(key) /\ Len(key.v) >= 1
        modelOk == IsStr(model) /\ Len(model.v) >= 1
        latOk == rawLat = Absent \/ (IsNum(lat) /\ lat.v >= 0 /\ lat.v <= 200)
    IN  IF keyOk /\ modelOk /\ latOk
        THEN [success |-> TRUE,
              data |-> [set |-> TRUE,
                        ELEVENLABS_API_KEY |-> key.v,
                        ELEVENLABS_MODEL_ID |-> model.v,
                        ELEVENLABS_OPTIMIZE_LATENCY |-> IF rawLat = Absent THEN Absent ELSE lat]]
        ELSE [success |-> FALSE, data |-> NoEnv]

\* the text of the first issue of a failed envSchema parse
EnvIssue(penv) ==
    IF penv.ELEVENLABS_API_KEY = Absent THEN "Required"
    ELSE IF penv.ELEVENLABS_API_KEY.v = "" THEN "ELEVENLABS_API_KEY is required"
    ELSE IF penv.ELEVENLABS_MODEL_ID = Str("") THEN "String must contain at least 1 character(s)"
    ELSE "Expected number"

\* getServerEnv that reads the environment on every call
getServerEnv_NoCache(penv, cache) ==
    LET result == envSchema(penv)
    IN  IF ~result.success
        THEN [threw |-> TRUE, env |-> NoEnv, cache |-> NoEnv, validated |-> TRUE,
              message |-> "Invalid environment configuration: " \o EnvIssue(penv)]
        ELSE [threw |-> FALSE, env |-> result.data, cache |-> result.data,
              validated |-> TRUE, message |-> ""]

\* getServerEnv(): [threw, env, cache] from process.env and the cache before the
\* call; validated says whether the call got to envSchema.safeParse
getServerEnv(penv, cache) ==
    LET c1 == IF penv.NODE_ENV = Str("development") THEN NoEnv ELSE cache
    IN  IF c1.set
        THEN [threw |-> FALSE, env |-> c1, cache |-> c1, validated |-> FALSE,
              message |-> ""]
        ELSE LET result == envSchema(penv)
             IN  IF ~result.success
                 THEN [threw |-> TRUE, env |-> NoEnv, cache |-> c1, validated |-> TRUE,
                       message |-> "Invalid environment configuration: " \o EnvIssue(penv)]
                 ELSE [threw |-> FALSE, env |-> result.data, cache |-> result.data,
                       validated |-> TRUE, message |-> ""]

-----------------------------------------------------------------------------
(* lib/schemas.ts: synthesizeSchema *)

Issue(path, message) == [path |-> path, message |-> message]

InvalidType(path, expected, x) ==
    IF x = Absent
    THEN <<Issue(path, "Required")>>
    ELSE <<Issue(path, "Expected " \o expected \o ", received " \o ReceivedType(x))>>

\* z.string().min(1, "Text is required").max(5_000, "Text must be shorter than 5,000 characters")
TextIssues(x) ==
    IF ~IsStr(x) THEN InvalidType("text", "string", x)
    ELSE IF x.len < 1 THEN <<Issue("text", "Text is required")>>
    ELSE IF x.len > 5000 THEN <<Issue("text", "Text must be shorter than 5,000 characters")>>
    ELSE <<>>

\* z.string().min(1, "Voice is required")
VoiceIdIssues(x) ==
    IF ~IsStr(x) THEN InvalidType("voiceId", "string", x)
    ELSE IF Len(x.v) < 1 THEN <<Issue("voiceId", "Voice is required")>>
    ELSE <<>>

\* the transform of language: a falsy value (undefined, "") becomes undefined
LanguageTransform(x) == IF x = Absent \/ x.v = "" THEN Absent ELSE x

\* z.string().optional().transform(...).refine(..., "Unsupported language selected")
LanguageIssues(x) ==
    IF x = Absent THEN <<>>
    ELSE IF ~IsStr(x) THEN InvalidType("language", "string", x)
    ELSE LET value == LanguageTransform(x)
         IN  IF value = Absent
                \/ value.v = "auto"
                \/ \E i \in 1..Len(LANGUAGE_OPTIONS) : LANGUAGE_OPTIONS[i] = value.v
             THEN <<>>
             ELSE <<Issue("language", "Unsupported language selected")>>

\* z.number().min(0).max(1).optional()
UnitIntervalIssues_NoMax(path, x) ==
    IF x = Absent THEN <<>>
    ELSE IF ~IsNum(x) THEN InvalidType(path, "number", x)
    ELSE IF x.v < 0 THEN <<Issue(path, "Number must be greater than or equal to 0")>>
    ELSE <<>>

UnitIntervalIssues(path, x) ==
    IF x = Absent THEN <<>>
    ELSE IF ~IsNum(x) THEN InvalidType(path, "number", x)
    ELSE IF x.v < 0 THEN <<Issue(path, "Number must be greater than or equal to 0")>>
    ELSE IF x.v > 100 THEN <<Issue(path, "Number must be less than or equal to 1")>>
    ELSE <<>>

\* z.union([z.literal(0), z.literal(1), z.literal(2)]).optional()
LatencyIssues(x) ==
    IF x = Absent THEN <<>>
    ELSE IF IsNum(x) /\ x.v \in {0, 100, 200} THEN <<>>
    ELSE <<Issue("optimizeStreamingLatency", "Invalid input")>>

\* z.string().optional()
ModelIdIssues(x) ==
    IF x = Absent \/ IsStr(x) THEN <<>> ELSE InvalidType("modelId", "string", x)

\* synthesizeSchema.safeParse(json): the issues in the order of the schema's keys
\* (a json that is no object gives one issue with an empty path), and the
\* parsed data on success
synthesizeSchema(json) ==
    IF json.kind # "object"
    THEN [success |-> FALSE,
          issues |-> <<Issue("", "Expected object, received " \o json.kind)>>,
          data |-> Absent]
    ELSE LET issues == TextIssues(json.text) \o VoiceIdIssues(json.voiceId)
                       \o LanguageIssues(json.language)
                       \o UnitIntervalIssues("stability", json.stability)
                       \o UnitIntervalIssues("similarityBoost", json.similarityBoost)
                       \o UnitIntervalIssues("styleExaggeration", json.styleExaggeration)
                       \o LatencyIssues(json.optimizeStreamingLatency)
                       \o ModelIdIssues(json.modelId)
         IN  IF issues # <<>>
             THEN [success |-> FALSE, issues |-> issues, data |-> Absent]
             ELSE [success |-> TRUE, issues |-> <<>>,
                   data |-> [text |-> json.text,
                             voiceId |-> json.voiceId,
                             language |-> LanguageTransform(json.language),
                             stability |-> json.stability,
                             similarityBoost |-> json.similarityBoost,
                             styleExaggeration |-> json.styleExaggeration,
                             optimizeStreamingLatency |-> json.optimizeStreamingLatency,
                             modelId |-> json.modelId]]

\* ZodError.flatten(): the issues with an empty path are formErrors, the others
\* fieldErrors (every key of this schema raises at most one issue, so the
\* flattened values of fieldErrors are the issues' messages in their order)
flatten(issues) ==
    LET IsForm(i) == i.path = ""
        IsField(i) == i.path # ""
        formIssues == SelectSeq(issues, IsForm)
        fieldIssues == SelectSeq(issues, IsField)
    IN  [formErrors |-> [k \in 1..Len(formIssues) |-> formIssues[k].message],
         fieldErrors |-> [k \in 1..Len(fieldIssues) |-> fieldIssues[k].message]]

\* app/api/synthesize/route.ts: getValidationMessage
getValidationMessage_FormFirst(issues) ==
    LET flattened == flatten(issues)
    IN  IF Len(flattened.formErrors) > 0 THEN flattened.formErrors[1]
        ELSE IF Len(flattened.fieldErrors) > 0
             THEN flattened.fieldErrors[Len(flattened.fieldErrors)]
        ELSE "Please review the submitted values."

getValidationMessage(issues) ==
    LET flattened == flatten(issues)
    IN  IF Len(flattened.fieldErrors) > 0 THEN flattened.fieldErrors[1]
        ELSE IF Len(flattened.formErrors) > 0 THEN flattened.formErrors[1]
        ELSE "Please review the submitted values."

-----------------------------------------------------------------------------
(* lib/languages.ts: resolveLanguageCode *)

NAME_TO_CODE ==
    [ auto |-> "auto", he |-> "he", hebrew |-> "he" ] @@
    ( "hebrew (modern)" :> "he" ) @@
    [ en |-> "en", english |-> "en" ] @@
    ( "american english" :> "en" @@ "british english" :> "en" ) @@
    [ es |-> "es", spanish |-> "es" ] @@
    ( "castilian spanish" :> "es" @@ "latin american spanish" :> "es" ) @@
    [ fr |-> "fr", french |-> "fr", de |-> "de", german |-> "de",
      it |-> "it", italian |-> "it", pt |-> "pt", portuguese |-> "pt" ] @@
    ( "br portuguese" :> "pt" ) @@
    [ ru |-> "ru", russian |-> "ru", ja |-> "ja", japanese |-> "ja",
      ko |-> "ko", korean |-> "ko", zh |-> "zh", chinese |-> "zh" ] @@
    ( "mandarin chinese" :> "zh" ) @@
    [ ar |-> "ar", arabic |-> "ar", hi |-> "hi", hindi |-> "hi",
      cs |-> "cs", czech |-> "cs", da |-> "da", danish |-> "da",
      fi |-> "fi", finnish |-> "fi", hu |-> "hu", hungarian |-> "hu",
      nl |-> "nl", dutch |-> "nl", pl |-> "pl", polish |-> "pl",
      sv |-> "sv", swedish |-> "sv", tr |-> "tr", turkish |-> "tr",
      uk |-> "uk", ukrainian |-> "uk" ]

UpperCase == "ABCDEFGHIJKLMNOPQRSTUVWXYZ"
LowerCase == "abcdefghijklmnopqrstuvwxyz"

IsLowerLetter(c) == \E k \in 1..Len(LowerCase) : SubSeq(LowerCase, k, k) = c

\* one character of String.prototype.toLowerCase
LowerChar(c) ==
    IF \E k \in 1..Len(UpperCase) : SubSeq(UpperCase, k, k) = c
    THEN LET k == CHOOSE k \in 1..Len(UpperCase) : SubSeq(UpperCase, k, k) = c
         IN  SubSeq(LowerCase, k, k)
    ELSE c

RECURSIVE toLowerCase(_)
toLowerCase(s) ==
    IF Len(s) = 0 THEN ""
    ELSE LowerChar(SubSeq(s, 1, 1)) \o toLowerCase(SubSeq(s, 2, Len(s)))

\* the white space String.prototype.trim strips, of which the model uses three
IsSpace(c) == c \in {" ", "\t", "\n"}

\* String.prototype.trim
RECURSIVE trim(_)
trim(s) ==
    IF Len(s) = 0 THEN ""
    ELSE IF IsSpace(SubSeq(s, 1, 1)) THEN trim(SubSeq(s, 2, Len(s)))
    ELSE IF IsSpace(SubSeq(s, Len(s), Len(s))) THEN trim(SubSeq(s, 1, Len(s) - 1))
    ELSE s

\* /^[a-z]{2}(?:(?:-|_)[a-z]{2})?$/i on a lower-cased string
IsoMatch(s) ==
    LET L(k) == IsLowerLetter(SubSeq(s, k, k))
    IN  \/ Len(s) = 2 /\ L(1) /\ L(2)
        \/ Len(s) = 5 /\ L(1) /\ L(2) /\ SubSeq(s, 3, 3) \in {"-", "_"} /\ L(4) /\ L(5)

\* resolveLanguageCode with an exact lookup
resolveLanguageCode_Exact(input) ==
    IF input = Absent \/ input = Null \/ input.v = "" THEN Absent
    ELSE IF input.v \in DOMAIN NAME_TO_CODE THEN Str(NAME_TO_CODE[input.v])
    ELSE IF IsoMatch(input.v) THEN Str(SubSeq(input.v, 1, 2))
    ELSE Absent

\* resolveLanguageCode(input): Absent is undefined (no match)
resolveLanguageCode(input) ==
    IF input = Absent \/ input = Null \/ input.v = "" THEN Absent
    ELSE LET normalized == toLowerCase(trim(input.v))
         IN  IF normalized = "" THEN Absent
             ELSE IF normalized \in DOMAIN NAME_TO_CODE THEN Str(NAME_TO_CODE[normalized])
             ELSE IF IsoMatch(normalized)
                  THEN IF SubSeq(normalized, 1, 2) \in DOMAIN NAME_TO_CODE
                       THEN Str(NAME_TO_CODE[SubSeq(normalized, 1, 2)])
                       ELSE Str(SubSeq(normalized, 1, 2))
             ELSE Absent

-----------------------------------------------------------------------------
(* lib/elevenlabs.ts: the provider client *)

NoCall == [made |-> FALSE]
NoError == [kind |-> "none", message |-> ""]
Error(message) == [kind |-> "Error", message |-> message]
\* a rejection with a value that is no Error instance
NonError == [kind |-> "other", message |-> ""]

\* the decimal form of a three-digit HTTP status (template literal)
StatusString(n) ==
    LET digit(k) == SubSeq("0123456789", k + 1, k + 1)
    IN  digit(n \div 100) \o digit((n \div 10) % 10) \o digit(n % 10)

\* a client that takes every answer but a server error for a success
IsOk_NotServerError(resp) == resp.status < 500

IsOk(resp) == resp.status >= 200 /\ resp.status <= 299

\* selectModelForLanguage(languageCode, defaultModel); both Absent or Str
selectModelForLanguage(languageCode, defaultModel) ==
    IF languageCode = Str("he") THEN "eleven_v3"
    ELSE IF defaultModel # Absent /\ defaultModel.v # ""
            /\ defaultModel.v # "eleven_multilingual_v2"
         THEN defaultModel.v
    ELSE "eleven_turbo_v2_5"

getModelCharacterLimit(modelId) ==
    CASE modelId = "eleven_v3" -> 3000
      [] modelId \in {"eleven_flash_v2_5", "eleven_turbo_v2_5"} -> 30000
      [] modelId \in {"eleven_flash_v2", "eleven_turbo_v2"} -> 30000
      [] modelId \in {"eleven_multilingual_v2", "eleven_multilingual_v1",
                      "eleven_monolingual_v1"} -> 10000
      [] OTHER -> 5000

\* normalizeStabilityForV3(value), in hundredths
normalizeStabilityForV3_Strict(value) ==
    IF value < 25 THEN 0
    ELSE IF value < 75 THEN 50
    ELSE 100

normalizeStabilityForV3(value) ==
    IF value <= 25 THEN 0
    ELSE IF value <= 75 THEN 50
    ELSE 100

clamp(value, min, max) == Min(Max(value, min), max)

\* safeParseJson(response): Null when the body is no JSON
safeParseJson(resp) == IF resp.json.valid THEN resp.json ELSE Null

\* (errorBody && JSON.stringify(errorBody)) || "unknown error"
ErrorDetail(errorBody) ==
    IF errorBody # Null /\ errorBody.truthy /\ errorBody.text # ""
    THEN errorBody.text
    ELSE "unknown error"

FailureMessage(what, resp) ==
    what \o " (" \o StatusString(resp.status) \o " " \o resp.statusText \o "): "
         \o ErrorDetail(safeParseJson(resp))

\* the language label of a provider voice: the first label that is set
LanguageLabel(labels) ==
    IF labels.language # Absent THEN labels.language
    ELSE IF labels.accent # Absent THEN labels.accent
    ELSE IF labels.lang # Absent THEN labels.lang
    ELSE IF labels.Locale # Absent THEN labels.Locale
    ELSE labels.Language

MapVoice(voice) ==
    [id |-> voice.voice_id,
     name |-> voice.name,
     accent |-> voice.labels.accent,
     language |-> LanguageLabel(voice.labels),
     languageCode |-> resolveLanguageCode(LanguageLabel(voice.labels))]

\* fetchVoices(): [cache, outbound, result] for the provider's answer resp
fetchVoices(penv, cache, resp) ==
    LET e == getServerEnv(penv, cache)
        sent == [made |-> TRUE, endpoint |-> "voices", apiKey |-> e.env.ELEVENLABS_API_KEY]
    IN  IF e.threw
        THEN [cache |-> e.cache, outbound |-> NoCall,
              result |-> Error(e.message)]
        ELSE IF resp.kind = "network"
        THEN [cache |-> e.cache, outbound |-> sent, result |-> Error("fetch failed")]
        ELSE IF ~IsOk(resp)
        THEN [cache |-> e.cache, outbound |-> sent,
              result |-> Error(FailureMessage("Failed to fetch voices", resp))]
        ELSE IF ~resp.json.valid
        THEN [cache |-> e.cache, outbound |-> sent,
              result |-> Error("Unexpected token in JSON")]
        ELSE IF resp.json.voices = Absent
        THEN [cache |-> e.cache, outbound |-> sent,
              result |-> Error("Cannot read properties of undefined (reading 'length')")]
        ELSE [cache |-> e.cache, outbound |-> sent,
              result |-> [kind |-> "voices",
                          voices |-> [k \in 1..Len(resp.json.voices.v) |->
                                          MapVoice(resp.json.voices.v[k])]]]

\* a ?? b on tagged values
Coalesce(a, b) == IF a = Absent \/ a = Null THEN b ELSE a

\* a destructuring default: applies to undefined only
Default(a, b) == IF a = Absent THEN b ELSE a

\* synthesizeSpeechStream(input): [cache, outbound, result] for the provider's answer resp
synthesizeSpeechStream(input, penv, cache, resp) ==
    LET e == getServerEnv(penv, cache)
        stability == Default(input.stability, Num(50)).v
        similarityBoost == Default(input.similarityBoost, Num(80)).v
        optimizeStreamingLatency ==
            Default(input.optimizeStreamingLatency,
                    Coalesce(e.env.ELEVENLABS_OPTIMIZE_LATENCY, Num(0)))
        selectedModel ==
            selectModelForLanguage(input.languageCode,
                                   Coalesce(input.modelId, Str(e.env.ELEVENLABS_MODEL_ID)))
        stabilityValue ==
            IF selectedModel = "eleven_v3"
            THEN normalizeStabilityForV3(stability)
            ELSE clamp(stability, 0, 100)
        sent == [made |-> TRUE,
                 endpoint |-> "text-to-speech/stream",
                 apiKey |-> e.env.ELEVENLABS_API_KEY,
                 voiceId |-> input.voiceId,
                 text |-> input.text,
                 model_id |-> selectedModel,
                 language_code |-> IF input.languageCode = Str("auto")
                                   THEN Absent ELSE input.languageCode,
                 stability |-> stabilityValue,
                 similarity_boost |-> clamp(similarityBoost, 0, 100),
                 style |-> IF input.styleExaggeration # Absent
                           THEN Num(clamp(input.styleExaggeration.v, 0, 100))
                           ELSE Absent,
                 optimize_streaming_latency |-> optimizeStreamingLatency]
    IN  IF e.threw
        THEN [cache |-> e.cache, outbound |-> NoCall,
              result |-> Error(e.message)]
        ELSE IF resp.kind = "network"
        THEN [cache |-> e.cache, outbound |-> sent, result |-> Error("fetch failed")]
        ELSE IF ~IsOk(resp)
        THEN [cache |-> e.cache, outbound |-> sent,
              result |-> Error(FailureMessage("Failed to synthesize speech", resp))]
        ELSE IF ~resp.stream
        THEN [cache |-> e.cache, outbound |-> sent,
              result |-> Error("Response body is null")]
        ELSE [cache |-> e.cache, outbound |-> sent, result |-> [kind |-> "stream"]]

\* the buffered variant: the same request on the non-streaming endpoint, the
\* whole body read into a buffer
synthesizeSpeech(input, penv, cache, resp) ==
    LET e == getServerEnv(penv, cache)
        stability == Default(input.stability, Num(50)).v
        similarityBoost == Default(input.similarityBoost, Num(80)).v
        optimizeStreamingLatency ==
            Default(input.optimizeStreamingLatency,
                    Coalesce(e.env.ELEVENLABS_OPTIMIZE_LATENCY, Num(0)))
        selectedModel ==
            selectModelForLanguage(input.languageCode,
                                   Coalesce(input.modelId, Str(e.env.ELEVENLABS_MODEL_ID)))
        stabilityValue ==
            IF selectedModel = "eleven_v3"
            THEN normalizeStabilityForV3(stability)
            ELSE clamp(stability, 0, 100)
        sent == [made |-> TRUE,
                 endpoint |-> "text-to-speech",
                 apiKey |-> e.env.ELEVENLABS_API_KEY,
                 voiceId |-> input.voiceId,
                 text |-> input.text,
                 model_id |-> selectedModel,
                 language_code |-> IF input.languageCode = Str("auto")
                                   THEN Absent ELSE input.languageCode,
                 stability |-> stabilityValue,
                 similarity_boost |-> clamp(similarityBoost, 0, 100),
                 style |-> IF input.styleExaggeration # Absent
                           THEN Num(clamp(input.styleExaggeration.v, 0, 100))
                           ELSE Absent,
                 optimize_streaming_latency |-> optimizeStreamingLatency]
    IN  IF e.threw
        THEN [cache |-> e.cache, outbound |-> NoCall,
              result |-> Error(e.message)]
        ELSE IF resp.kind = "network"
        THEN [cache |-> e.cache, outbound |-> sent, result |-> Error("fetch failed")]
        ELSE IF ~IsOk(resp)
        THEN [cache |-> e.cache, outbound |-> sent,
              result |-> Error(FailureMessage("Failed to synthesize speech", resp))]
        ELSE [cache |-> e.cache, outbound |-> sent, result |-> [kind |-> "buffer"]]

-----------------------------------------------------------------------------
(* The route handlers.  Each yields the response, the input it passed to the  *)
(* provider client (NoCall if none), what the client did, and the console.  *)

NoBody == [error |-> Absent, details |-> Absent, voices |-> Absent, audio |-> FALSE]
ErrorBody(message) == [NoBody EXCEPT !.error = Str(message)]
Json(status, body) == [status |-> status, body |-> body]
NoResponse == [status |-> 0, body |-> NoBody]

Handled(resp, call, client, log) ==
    [response |-> resp, clientCall |-> call, outbound |-> client.outbound,
     thrown |-> client.thrown, cache |-> client.cache, logged |-> log]

\* nothing of the provider client ran
Untouched(cache) == [outbound |-> NoCall, thrown |-> NoError, cache |-> cache]

Ran(r) ==
    [outbound |-> r.outbound, cache |-> r.cache,
     thrown |-> IF r.result.kind \in {"Error", "other"} THEN r.result ELSE NoError]

\* the SynthesisInput both POST handlers build from the parsed payload
ClientInput(payload) ==
    [made |-> TRUE,
     text |-> payload.text,
     voiceId |-> payload.voiceId,
     languageCode |-> payload.language,
     stability |-> payload.stability,
     similarityBoost |-> payload.similarityBoost,
     styleExaggeration |-> payload.styleExaggeration,
     optimizeStreamingLatency |-> payload.optimizeStreamingLatency,
     modelId |-> payload.modelId]

\* the imported synthesizeSpeechStream: the provider client, or a stand-in (the
\* route's tests mock the import) that rejects with a value that is no Error
ClientStream(input, penv, cache, provider) ==
    IF provider.kind = "stub"
    THEN [cache |-> cache, outbound |-> NoCall, result |-> NonError]
    ELSE synthesizeSpeechStream(input, penv, cache, provider)

\* the imported fetchVoices, likewise
ClientVoices(penv, cache, provider) ==
    IF provider.kind = "stub"
    THEN [cache |-> cache, outbound |-> NoCall, result |-> NonError]
    ELSE fetchVoices(penv, cache, provider)

AudioResponse == [status |-> 200, body |-> [NoBody EXCEPT !.audio = TRUE]]

RequestJsonThrows_NoCatch(body) == FALSE

\* await request.json() throws on a body that is no JSON
RequestJsonThrows(body) == body.kind = "invalid"

\* app/api/synthesize/route.ts (current generation): POST
POST(body, penv, cache, provider) ==
    IF RequestJsonThrows(body)
    THEN Handled(Json(400, ErrorBody("Invalid JSON payload")), NoCall, Untouched(cache),
                 <<[level |-> "error", text |-> "[api/synthesize] Invalid JSON payload",
                    detail |-> "SyntaxError"]>>)
    ELSE LET parsed == synthesizeSchema(body)
         IN  IF ~parsed.success
             THEN LET message == getValidationMessage(parsed.issues)
                  IN  Handled(Json(422, ErrorBody("Invalid input: " \o message)), NoCall,
                              Untouched(cache),
                              <<[level |-> "warn",
                                 text |-> "[api/synthesize] Validation error:",
                                 detail |-> message]>>)
             ELSE LET input == ClientInput(parsed.data)
                      r == ClientStream(input, penv, cache, provider)
                  IN  IF r.result.kind = "stream"
                      THEN Handled(AudioResponse, input, Ran(r), <<>>)
                      ELSE Handled(Json(502, ErrorBody("Synthesis service failed. Please try again.")),
                                   input, Ran(r),
                                   <<[level |-> "error",
                                      text |-> "[api/synthesize] Upstream synthesis failed",
                                      detail |-> r.result.message]>>)

\* the synthesize route of the legacy generation: POST
POST_legacy(body, penv, cache, provider) ==
    IF RequestJsonThrows(body)
    THEN Handled(Json(400, ErrorBody("Invalid JSON payload")), NoCall, Untouched(cache), <<>>)
    ELSE LET parsed == synthesizeSchema(body)
         IN  IF ~parsed.success
             THEN Handled(Json(422, [NoBody EXCEPT !.error =
                                        [t |-> "object", v |-> flatten(parsed.issues)]]),
                          NoCall, Untouched(cache), <<>>)
             ELSE LET input == ClientInput(parsed.data)
                      r == ClientStream(input, penv, cache, provider)
                      message == IF r.result.kind = "Error" THEN r.result.message
                                 ELSE "Failed to synthesize speech"
                  IN  IF r.result.kind = "stream"
                      THEN Handled(AudioResponse, input, Ran(r), <<>>)
                      ELSE Handled(Json(502, ErrorBody(message)), input, Ran(r),
                                   <<[level |-> "error", text |-> "", detail |-> r.result.message]>>)

PERMISSIONS_HINT ==
    "Your ElevenLabs API key is missing required permissions. Generate a key with voices_read access."
INVALID_KEY_HINT == "Invalid or unauthorized ElevenLabs API key. Check your key."
CONNECTIVITY_HINT ==
    "Unable to load ElevenLabs voices. Verify your API key and network connection."

\* app/api/voices/route.ts (current generation): GET, for the outcome r of fetchVoices
GET(r) ==
    IF r.result.kind = "voices"
    THEN Handled(Json(200, [NoBody EXCEPT !.voices = [t |-> "array", v |-> r.result.voices]]),
                 NoCall, Ran(r), <<>>)
    ELSE LET details == IF r.result.kind = "Error" THEN r.result.message ELSE "Unknown error"
             userFriendlyMessage ==
                 IF includes(details, "missing_permissions") THEN PERMISSIONS_HINT
                 ELSE IF includes(details, "401") THEN INVALID_KEY_HINT
                 ELSE CONNECTIVITY_HINT
         IN  Handled(Json(500, ErrorBody(userFriendlyMessage)), NoCall, Ran(r),
                     <<[level |-> "error", text |-> "[api/voices] Failed to fetch voices",
                        detail |-> r.result.message]>>)

\* the voices route of the legacy generation: GET
GET_legacy(r) ==
    IF r.result.kind = "voices"
    THEN Handled(Json(200, [NoBody EXCEPT !.voices = [t |-> "array", v |-> r.result.voices]]),
                 NoCall, Ran(r), <<>>)
    ELSE LET errorMessage == IF r.result.kind = "Error" THEN r.result.message
                             ELSE "Unknown error"
             userFriendlyMessage ==
                 IF includes(errorMessage, "missing_permissions")
                 THEN "Your ElevenLabs API key is missing required permissions. Please generate a new API key with 'voices_read' permission enabled."
                 ELSE IF includes(errorMessage, "401")
                 THEN "Invalid or unauthorized ElevenLabs API key. Please check your API key."
                 ELSE "Unable to load ElevenLabs voices. Check your API key and network connection."
         IN  Handled(Json(500, [NoBody EXCEPT !.error = Str(userFriendlyMessage),
                                              !.details = Str(errorMessage)]),
                     NoCall, Ran(r),
                     <<[level |-> "error", text |-> "", detail |-> r.result.message]>>)

-----------------------------------------------------------------------------
(* Inputs: request bodies, provider answers, environments *)

NotJson == [valid |-> FALSE, truthy |-> FALSE, text |-> "", voices |-> Absent]
JsonBody(raw) == [valid |-> TRUE, truthy |-> TRUE, text |-> raw, voices |-> Absent]
\* a JSON body that is falsy once parsed (null, 0, false, "")
FalsyJson == [valid |-> TRUE, truthy |-> FALSE, text |-> "null", voices |-> Absent]

Http(status, statusText, json, stream) ==
    [kind |-> "http", status |-> status, statusText |-> statusText, json |-> json,
     stream |-> stream]
\* fetch itself rejects
Network == [kind |-> "network", status |-> 0, statusText |-> "", json |-> NotJson,
            stream |-> FALSE]
\* the client function is replaced by a stub rejecting with a value that is no Error
StubReject == [kind |-> "stub", status |-> 0, statusText |-> "", json |-> NotJson,
               stream |-> FALSE]

SynthesisAnswers ==
    { Http(200, "OK", NotJson, TRUE),
      Http(200, "OK", NotJson, FALSE),
      Http(401, "Unauthorized", JsonBody("{\"detail\":{\"status\":\"invalid_api_key\"}}"), TRUE),
      Http(429, "Too Many Requests", NotJson, TRUE),
      Http(500, "Internal Server Error", FalsyJson, TRUE),
      Network,
      StubReject }

NoLabels == [language |-> Absent, accent |-> Absent, lang |-> Absent, Locale |-> Absent,
             Language |-> Absent]
ProviderVoice(id, name, labels) == [voice_id |-> id, name |-> name, labels |-> labels]

VoicePayloads ==
    { <<>>,
      << ProviderVoice("v1", "Noa", [NoLabels EXCEPT !.language = Str("Hebrew (Modern)")]) >>,
      << ProviderVoice("v1", "Noa", [NoLabels EXCEPT !.language = Str("he")]),
         ProviderVoice("v2", "Adam", [NoLabels EXCEPT !.accent = Str("American")]),
         ProviderVoice("v1", "Noa", [NoLabels EXCEPT !.Locale = Str("en-US")]) >> }

VoicesAnswers ==
    { Http(200, "OK", [JsonBody("") EXCEPT !.voices = [t |-> "array", v |-> vs]], TRUE) :
        vs \in VoicePayloads }
    \cup
    { Http(200, "OK", NotJson, TRUE),
      Http(200, "OK", JsonBody("{}"), TRUE),
      Http(401, "Unauthorized",
           JsonBody("{\"detail\":{\"status\":\"missing_permissions\"}}"), TRUE),
      Http(401, "Unauthorized", NotJson, TRUE),
      Http(429, "Too Many Requests", JsonBody("{\"detail\":\"quota 401 exceeded\"}"), TRUE),
      Http(500, "Internal Server Error",
           JsonBody("{\"detail\":{\"status\":\"missing_permissions\"}}"), TRUE),
      Http(500, "Internal Server Error", NotJson, TRUE),
      Network,
      StubReject }

Env(key, model, latency, mode) ==
    [ELEVENLABS_API_KEY |-> key, ELEVENLABS_MODEL_ID |-> model,
     ELEVENLABS_OPTIMIZE_LATENCY |-> latency, NODE_ENV |-> mode]

Environments ==
    { Env(Str("sk-live"), Absent, Absent, Str("production")),
      Env(Str("sk-live"), Str("eleven_flash_v2_5"), Str("2"), Str("production")),
      Env(Absent, Absent, Absent, Str("production")),
      Env(Str(""), Absent, Absent, Str("production")) }

TextValues == { Absent, Text(0), Text(1), Text(3000), Text(3001), Text(5000), Text(5001) }
VoiceIdValues == { Absent, Str(""), Str("voice-1") }
LanguageValues == { Absent, Str(""), Str("auto"), Str("he"), Str("en"), Str("xx") }
StabilityValues ==
    { Absent, Num(-1), Num(0), Num(25), Num(26), Num(75), Num(76), Num(100), Num(101) }
SimilarityValues == { Absent, Num(85), Num(101) }
StyleValues == { Absent, Num(-1) }
LatencyValues == { Absent, Num(0), Num(100), Num(200), Num(300) }
ModelIdValues ==
    { Absent, Str(""), Str("eleven_multilingual_v2"), Str("eleven_v3"),
      Str("eleven_flash_v2_5") }

ObjectBody(script, voiceId, lang, stability, similarityBoost, style, latency, modelId) ==
    [kind |-> "object", text |-> script, voiceId |-> voiceId, language |-> lang,
     stability |-> stability, similarityBoost |-> similarityBoost,
     styleExaggeration |-> style,
     optimizeStreamingLatency |-> latency, modelId |-> modelId]

\* The request bodies: the unparseable one, two JSON values that are no object,
\* and two families of objects.  The first varies every field over valid and
\* invalid values around the script and the voice; the second varies what the
\* provider client reads (language, stability, model) on an otherwise valid body.
Bodies ==
    { [kind |-> "invalid"], [kind |-> "number"], [kind |-> "null"] }
    \cup
    { ObjectBody(t, v, l, st, si, sy, la, Absent) :
        t \in TextValues, v \in VoiceIdValues, l \in {Absent, Str("he"), Str("en"), Str("xx")},
        st \in {Absent, Num(101)}, si \in {Absent, Num(101)}, sy \in StyleValues,
        la \in {Absent, Num(300)} }
    \cup
    { ObjectBody(Text(1), Str("voice-1"), l, st, si, Absent, la, m) :
        l \in LanguageValues, st \in StabilityValues, si \in SimilarityValues,
        la \in LatencyValues, m \in ModelIdValues }

\* inputs a caller of the exported client function may pass (SynthesisInput:
\* stability is any number)
DirectInputs ==
    [ made : {TRUE}, text : {Text(12)}, voiceId : {Str("voice-1")},
      languageCode : {Absent, Str("auto"), Str("he"), Str("en")},
      stability : {Absent, Num(-10), Num(0), Num(25), Num(26), Num(75), Num(76),
                   Num(100), Num(130)},
      similarityBoost : {Absent, Num(140)},
      styleExaggeration : {Absent, Num(-20)},
      optimizeStreamingLatency : {Absent, Num(200)},
      modelId : {Absent, Str("eleven_v3"), Str("eleven_multilingual_v2")} ]

-----------------------------------------------------------------------------
(* The server *)

NoRequest == [route |-> "none", body |-> [kind |-> "none"]]

\* a script of the form: its characters (a stand-in for a long one) and length
Script(s, len) == [s |-> s, len |-> len]

Idle == [pc |-> "idle"]

\* a run whose cleanup left isMounted set
Stale_StillMounted == [live |-> TRUE, language |-> "", selectedVoiceId |-> ""]

\* a loadVoices run with the values it closed over; isMounted is live
Live(lang, sel) == [live |-> TRUE, language |-> lang, selectedVoiceId |-> sel]
Stale == [live |-> FALSE, language |-> "", selectedVoiceId |-> ""]

\* TtsStudio after its first render and effects: the useState initial values,
\* no <audio> rendered, the first loadVoices run fetching
StudioInit ==
    /\ text = Script("", 0)
    /\ language = "he"
    /\ voices = <<>>
    /\ selectedVoiceId = ""
    /\ audioSrc = Null
    /\ history = <<>>
    /\ isLoading = FALSE
    /\ error = Null
    /\ audioElement = [attached |-> FALSE, src |-> Null, currentSrc |-> Null,
                       played |-> Null]
    /\ submission = Idle
    /\ loads = {Live("he", "")}
    /\ pendingPlays = 0
    /\ succeeded = <<>>
    /\ inFlight = 0
    /\ edits = 0

\* no library call made, no audio element attached
NoInvocation == [fn |-> "none"]
NoOutcome == [returned |-> FALSE]
LibInit ==
    /\ audioRef = Null
    /\ invocation = NoInvocation
    /\ outcome = NoOutcome

\* the proxy as the process starts, and the form after its first render
ProxyInit(generations) ==
    /\ generation \in generations
    /\ processEnv \in Environments
    /\ cachedEnv = NoEnv
    /\ request = NoRequest
    /\ response = NoResponse
    /\ clientCall = NoCall
    /\ outbound = NoCall
    /\ thrown = NoError
    /\ logged = <<>>
    /\ StudioInit

ServerInit(generations) ==
    /\ ProxyInit(generations)
    /\ LibInit

Finish(route, body, h) ==
    /\ request' = [route |-> route, body |-> body]
    /\ response' = h.response
    /\ clientCall' = h.clientCall
    /\ outbound' = h.outbound
    /\ thrown' = h.thrown
    /\ logged' = h.logged
    /\ cachedEnv' = h.cache
    /\ UNCHANGED <<generation, processEnv, uiVars, libVars>>

\* the provider's answer is read only by a request that gets to the client
ReachesClient(body) == body.kind = "object" /\ synthesizeSchema(body).success

\* a browser posts body to /api/synthesize; the provider answers with answer
PostSynthesize ==
    /\ request = NoRequest
    /\ \E body \in Bodies :
          \E answer \in IF ReachesClient(body) THEN SynthesisAnswers ELSE {Network} :
              Finish("synthesize", body,
                     IF generation = "current"
                     THEN POST(body, processEnv, cachedEnv, answer)
                     ELSE POST_legacy(body, processEnv, cachedEnv, answer))

\* a browser gets /api/voices
GetVoices ==
    /\ request = NoRequest
    /\ \E answer \in VoicesAnswers :
          LET r == ClientVoices(processEnv, cachedEnv, answer)
          IN  Finish("voices", [kind |-> "none"],
                     IF generation = "current" THEN GET(r) ELSE GET_legacy(r))

\* server code calls synthesizeSpeechStream directly
CallSynthesizeSpeechStream ==
    /\ request = NoRequest
    /\ \E input \in DirectInputs, answer \in SynthesisAnswers \ {StubReject} :
          LET r == synthesizeSpeechStream(input, processEnv, cachedEnv, answer)
          IN  Finish("client", [kind |-> "none"],
                     Handled(NoResponse, input, Ran(r), <<>>))

\* server code calls synthesizeSpeech directly
BufferedInputs ==
    { input \in DirectInputs :
        /\ input.stability \in {Absent, Num(130)}
        /\ input.similarityBoost = Absent
        /\ input.styleExaggeration = Absent
        /\ input.optimizeStreamingLatency = Absent }

CallSynthesizeSpeech ==
    /\ request = NoRequest
    /\ \E input \in BufferedInputs, answer \in SynthesisAnswers \ {StubReject} :
          LET r == synthesizeSpeech(input, processEnv, cachedEnv, answer)
          IN  Finish("client-buffer", [kind |-> "none"],
                     Handled(NoResponse, input, Ran(r), <<>>))

\* the response is delivered; the server is ready for the next request
Deliver ==
    /\ request # NoRequest
    /\ request' = NoRequest
    /\ response' = NoResponse
    /\ clientCall' = NoCall
    /\ outbound' = NoCall
    /\ thrown' = NoError
    /\ logged' = <<>>
    /\ UNCHANGED <<generation, processEnv, cachedEnv, uiVars, libVars>>

ServerNext ==
    \/ PostSynthesize
    \/ GetVoices
    \/ CallSynthesizeSpeechStream
    \/ CallSynthesizeSpeech
    \/ Deliver

\* the current generation of the sources
SpecServer == ServerInit({"current"}) /\ [][ServerNext]_vars

\* either generation of the route handlers
SpecGenerations == ServerInit({"current", "legacy"}) /\ [][ServerNext]_vars

-----------------------------------------------------------------------------
(* components/tts/TtsStudio.tsx: the script limits of the form *)

CHAR_LIMIT_HEBREW == 3000
CHAR_LIMIT_OTHER == 30000

getCharacterLimit(lang) ==
    IF lang = "he" THEN CHAR_LIMIT_HEBREW ELSE CHAR_LIMIT_OTHER

MAX_HISTORY == 5
AUDIO_BLOCKED_MESSAGE == "Audio ready. Tap play to listen."

\* the submissions with an OK response, the user's edits and the unsettled
\* playbacks a behaviour may have
MaxSubmissions == 6
MaxEdits == 2
MaxPendingPlays == 1

\* an object URL: URL.createObjectURL gives each blob a new one
Url(n) == [url |-> n]

\* lib/http.ts
DEFAULT_ERROR_MESSAGE == "Request failed"

\* a parsed JSON object with the members f (a function from keys to values)
Obj(f) == [t |-> "object", v |-> f]

\* extractFromPayload(payload): payload is a JSON value, or the body of a proxy
\* response (an object, known by its members error, details and voices)
extractFromPayload(payload) ==
    LET isString == "t" \in DOMAIN payload /\ payload.t = "string"
        candidate ==
            IF "t" \notin DOMAIN payload THEN payload.error
            ELSE IF payload.t = "object" /\ "error" \in DOMAIN payload.v
            THEN payload.v["error"]
            ELSE Absent
    IN  IF isString
        THEN IF trim(payload.v) # "" THEN Str(trim(payload.v)) ELSE Null
        ELSE IF IsStr(candidate) /\ trim(candidate.v) # "" THEN Str(trim(candidate.v))
        ELSE Null

\* getErrorMessage that looks at the status text first
getErrorMessage_StatusFirst(resp, payload, fallback) ==
    IF resp # Absent /\ trim(resp.statusText) # "" THEN trim(resp.statusText)
    ELSE IF extractFromPayload(payload) # Null THEN extractFromPayload(payload).v
    ELSE IF fallback = Absent THEN DEFAULT_ERROR_MESSAGE
    ELSE fallback.v

\* a helper that reports the status text and never falls back
getErrorMessage_StatusOnly(resp, payload, fallback) ==
    IF resp # Absent THEN trim(resp.statusText) ELSE ""

\* getErrorMessage(response, payload, fallback): resp is Absent or a response,
\* fallback is Absent (the default applies) or a string
getErrorMessage(resp, payload, fallback) ==
    IF extractFromPayload(payload) # Null THEN extractFromPayload(payload).v
    ELSE IF resp # Absent /\ trim(resp.statusText) # "" THEN trim(resp.statusText)
    ELSE IF fallback = Absent THEN DEFAULT_ERROR_MESSAGE
    ELSE fallback.v

\* the message the legacy form throws for a response that is not OK
LegacyMessage(payload, fallback) ==
    IF payload.error.t = "string"
    THEN (IF payload.error.v = "" THEN fallback ELSE payload.error.v)
    ELSE IF payload.error = Absent THEN fallback
    ELSE "[object Object]"

\* dedupeVoices keeping the last voice of each id
dedupeVoices_KeepLast(vs) ==
    LET F[k \in 0..Len(vs)] ==
            IF k = 0 THEN <<>>
            ELSE IF \E j \in (k + 1)..Len(vs) : vs[j].id = vs[k].id THEN F[k - 1]
            ELSE Append(F[k - 1], vs[k])
    IN  F[Len(vs)]

RECURSIVE dedupeVoices(_)
dedupeVoices(vs) ==
    IF vs = <<>> THEN <<>>
    ELSE LET kept == dedupeVoices(SubSeq(vs, 1, Len(vs) - 1))
             voice == vs[Len(vs)]
         IN  IF \E k \in 1..Len(kept) : kept[k].id = voice.id THEN kept
             ELSE Append(kept, voice)

filteredVoices(lang, vs) ==
    IF lang = "auto" THEN vs
    ELSE LET Matches(voice) == voice.languageCode = Str(lang)
         IN  SelectSeq(vs, Matches)

HasVoice(vs, id) == \E k \in 1..Len(vs) : vs[k].id = id

\* find((voice) => voice.id === id): the index of the first such voice
FirstWithId(vs, id) ==
    CHOOSE k \in 1..Len(vs) : vs[k].id = id /\ \A j \in 1..(k - 1) : vs[j].id # id

\* find((voice) => voice.languageCode === language)
FirstWithLanguage(vs, lang) ==
    CHOOSE k \in 1..Len(vs) :
        /\ vs[k].languageCode = Str(lang)
        /\ \A j \in 1..(k - 1) : vs[j].languageCode # Str(lang)

\* a selection effect that fills an empty selection only
SelectionEffect_KeepMissing(lang, vs, sel) ==
    LET filtered == filteredVoices(lang, vs)
    IN  IF Len(filtered) = 0 THEN sel
        ELSE IF sel = "" THEN filtered[1].id
        ELSE sel

\* the effect on [filteredVoices, selectedVoiceId]: the selection after it
SelectionEffect(lang, vs, sel) ==
    LET filtered == filteredVoices(lang, vs)
    IN  IF Len(filtered) = 0 THEN sel
        ELSE IF sel = "" \/ ~HasVoice(filtered, sel) THEN filtered[1].id
        ELSE sel

\* The effects that follow a handler that left the selection at selSet: the
\* selection effect, and a run of the loadVoices effect for every render on
\* which selectedVoiceId changed.  A run starts with setError(null); the
\* cleanup of the run before it clears that run's isMounted.
Effects(lang, vs, selBefore, selSet, ls, err) ==
    LET sel == SelectionEffect(lang, vs, selSet)
        runs == (IF selSet # selBefore THEN 1 ELSE 0) + (IF sel # selSet THEN 1 ELSE 0)
    IN  [selectedVoiceId |-> sel,
         loads |-> IF runs = 0 THEN ls
                   ELSE (IF ls # {} \/ runs = 2 THEN {Stale} ELSE {}) \cup {Live(lang, sel)},
         error |-> IF runs = 0 THEN err ELSE Null]

\* a handler that clears the message for every status but "blocked"
handlePlaybackStatus_Reset(status, err) ==
    IF status = "blocked" THEN Str(AUDIO_BLOCKED_MESSAGE) ELSE Null

handlePlaybackStatus(status, err) ==
    IF status = "blocked" THEN Str(AUDIO_BLOCKED_MESSAGE)
    ELSE IF status = "played" THEN Null
    ELSE err

\* voices.find((voice) => voice.id === selectedVoiceId)?.name ?? "Unknown"
VoiceName(vs, id) ==
    IF HasVoice(vs, id) THEN vs[FirstWithId(vs, id)].name ELSE "Unknown"

\* the HistoryItem a submission builds from the values it closed over (id and
\* createdAt, a random UUID and the clock, are left out)
HistoryItem(closure, dataUrl) ==
    [text |-> closure.text.s,
     voiceName |-> VoiceName(closure.voices, closure.selectedVoiceId),
     audioSrc |-> dataUrl]

setHistory_Append(current, entry) ==
    SubSeq(Append(current, entry), 1, Min(Len(current) + 1, MAX_HISTORY))

\* setHistory((current) => [entry, ...current].slice(0, MAX_HISTORY))
setHistory(current, entry) ==
    SubSeq(<<entry>> \o current, 1, Min(Len(current) + 1, MAX_HISTORY))

\* what the user types: nothing, blanks, two scripts, one over every limit
UiTexts ==
    { Script("", 0), Script(" ", 1), Script("shalom", 6), Script("hello", 5),
      Script("long", 30001) }

\* the provider's voice list (one id twice) or its refusal
StudioVoicesAnswers ==
    { Http(200, "OK",
           [JsonBody("") EXCEPT !.voices = [t |-> "array", v |->
              << ProviderVoice("v1", "Noa", [NoLabels EXCEPT !.language = Str("Hebrew (Modern)")]),
                 ProviderVoice("v2", "Adam", [NoLabels EXCEPT !.language = Str("he")]),
                 ProviderVoice("v1", "Noam", [NoLabels EXCEPT !.Locale = Str("en-US")]) >>]],
           TRUE),
      Http(401, "Unauthorized", NotJson, TRUE) }

\* the provider's answer to a synthesis of the form: audio or a refusal
StudioSynthesisAnswers ==
    { Http(200, "OK", NotJson, TRUE),
      Http(401, "Unauthorized", JsonBody("{\"detail\":{\"status\":\"invalid_api_key\"}}"), TRUE) }

\* the browser's fetch to the proxy rejects
FetchRejected == [kind |-> "rejected"]

\* the proxy answered OK and the body could not be read: response.blob() rejects
BodyUnreadable == [kind |-> "unreadable"]

\* the proxy's response to the form's POST /api/synthesize
SynthesizeReply(closure, answer) ==
    LET body == ObjectBody(Text(closure.text.len), Str(closure.selectedVoiceId),
                           Str(closure.language), Num(55), Num(85), Absent, Num(100), Absent)
    IN  IF generation = "current"
        THEN POST(body, processEnv, cachedEnv, answer).response
        ELSE POST_legacy(body, processEnv, cachedEnv, answer).response

\* the proxy's response to the form's GET /api/voices
VoicesReply(answer) ==
    LET r == ClientVoices(processEnv, cachedEnv, answer)
    IN  IF generation = "current" THEN GET(r).response ELSE GET_legacy(r).response

\* the <audio> element is rendered once audioSrc is set, and selects the
\* resource of its <source> child
Rendered(element, src) ==
    IF element.attached THEN element
    ELSE [element EXCEPT !.attached = TRUE, !.currentSrc = src]

\* an element that is played without a change of its source
Loaded_KeepSource(element, src) == [element EXCEPT !.played = src]

\* setSourceAndPlay on the mounted element: element.src = src; element.load();
\* play()
Loaded(element, src) == [element EXCEPT !.src = src, !.currentSrc = src, !.played = src]

\* play(src) as the form calls it: who issued the latest request, for which
\* source, and what it returned ("pending" until its promise settles)
Play(by, src, status) == [fn |-> "play", by |-> by, src |-> src, status |-> status]

\* the PlayResult the form last received from play
Settled(by, status) == [returned |-> TRUE, by |-> by, value |-> status]

\* the latest request is the one issued by `by`, and it has not settled
LatestPending(by) ==
    /\ invocation.fn = "play"
    /\ invocation.by = by
    /\ invocation.status = "pending"

\* the user edits the script
ChangeText ==
    /\ edits < MaxEdits
    /\ \E t \in UiTexts \ {text} : text' = t
    /\ edits' = edits + 1
    /\ UNCHANGED <<serverVars, libVars, inFlight, language, voices, selectedVoiceId, audioSrc, history,
                   isLoading, error, audioElement, submission, loads, pendingPlays,
                   succeeded>>

\* the user picks another voice of the filtered list
SelectVoice ==
    /\ edits < MaxEdits
    /\ \E k \in 1..Len(filteredVoices(language, voices)) :
          LET id == filteredVoices(language, voices)[k].id
              after == Effects(language, voices, selectedVoiceId, id, loads, error)
          IN  /\ id # selectedVoiceId
              /\ selectedVoiceId' = after.selectedVoiceId
              /\ loads' = after.loads
              /\ error' = after.error
    /\ edits' = edits + 1
    /\ UNCHANGED <<serverVars, libVars, inFlight, text, language, voices, audioSrc, history, isLoading,
                   audioElement, submission, pendingPlays, succeeded>>

\* The effects that follow a change of the language: loadVoices runs again
\* (language is one of its dependencies), the selection effect sees the new
\* filtered list, and loadVoices runs once more if that changed the selection.
LanguageEffects(lang, vs, selBefore, ls) ==
    LET sel == SelectionEffect(lang, vs, selBefore)
    IN  [selectedVoiceId |-> sel,
         loads |-> (IF ls # {} \/ sel # selBefore THEN {Stale} ELSE {}) \cup {Live(lang, sel)},
         error |-> Null]

\* the languages the user switches between
UiLanguages == {"he", "en", "auto"}

\* the user picks another language; the script is cleared by its effect
ChangeLanguage ==
    /\ edits < MaxEdits
    /\ \E lang \in UiLanguages \ {language} :
          LET after == LanguageEffects(lang, voices, selectedVoiceId, loads)
          IN  /\ language' = lang
              /\ text' = Script("", 0)
              /\ selectedVoiceId' = after.selectedVoiceId
              /\ loads' = after.loads
              /\ error' = after.error
    /\ edits' = edits + 1
    /\ UNCHANGED <<serverVars, libVars, inFlight, voices, audioSrc, history, isLoading,
                   audioElement, submission, pendingPlays, succeeded>>

\* loadVoices: the /api/voices fetch of a run settles, the provider answering
\* with one of `answers`
LoadVoicesSettles(answers) ==
    \E run \in loads, answer \in answers \cup {FetchRejected} :
      \E reply \in {IF answer = FetchRejected THEN NoResponse ELSE VoicesReply(answer)} :
      \E normalized \in {IF reply.status = 200 THEN dedupeVoices(reply.body.voices.v)
                         ELSE <<>>} :
        LET rest == loads \ {run}
            failed == answer = FetchRejected \/ reply.status # 200
            message ==
                IF answer = FetchRejected THEN "Failed to fetch"
                ELSE IF generation = "current"
                THEN getErrorMessage([statusText |-> ""], reply.body, Str("Unable to load voices."))
                ELSE LegacyMessage(reply.body, "Unable to load voices")
            picked ==
                IF run.selectedVoiceId = "" /\ Len(normalized) > 0
                THEN (IF \E k \in 1..Len(normalized) :
                             normalized[k].languageCode = Str(run.language)
                      THEN normalized[FirstWithLanguage(normalized, run.language)].id
                      ELSE normalized[1].id)
                ELSE selectedVoiceId
            after == Effects(language, normalized, selectedVoiceId, picked, rest, error)
        IN  /\ IF ~run.live
               THEN /\ loads' = rest
                    /\ UNCHANGED <<voices, selectedVoiceId, error>>
               ELSE IF failed
               THEN /\ loads' = rest
                    /\ error' = Str(message)
                    /\ UNCHANGED <<voices, selectedVoiceId>>
               ELSE /\ voices' = normalized
                    /\ selectedVoiceId' = after.selectedVoiceId
                    /\ loads' = after.loads
                    /\ error' = after.error
            /\ UNCHANGED <<serverVars, libVars, inFlight, text, language, audioSrc, history, isLoading,
                           audioElement, submission, pendingPlays, succeeded, edits>>

VoicesResponse == LoadVoicesSettles(StudioVoicesAnswers)

\* a submit control that stays enabled while a submission is in progress
CanSubmit_IgnoresLoading ==
    /\ trim(text.s) # ""
    /\ selectedVoiceId # ""
    /\ generation = "current" => text.len <= getCharacterLimit(language)

\* the submit control is enabled
CanSubmit ==
    /\ ~isLoading
    /\ trim(text.s) # ""
    /\ selectedVoiceId # ""
    /\ generation = "current" => text.len <= getCharacterLimit(language)

\* handleSubmit up to its fetch
SubmitStart ==
    /\ CanSubmit
    /\ Len(succeeded) < MaxSubmissions
    /\ IF selectedVoiceId = ""
       THEN /\ error' = Str("Please select a voice first.")
            /\ UNCHANGED <<isLoading, submission, inFlight>>
       ELSE IF generation = "current" /\ text.len > getCharacterLimit(language)
       THEN /\ error' = Str("Text is too long")
            /\ UNCHANGED <<isLoading, submission, inFlight>>
       ELSE /\ isLoading' = TRUE
            /\ inFlight' = inFlight + 1
            /\ error' = Null
            /\ submission' = [pc |-> "fetching", text |-> text,
                              selectedVoiceId |-> selectedVoiceId, voices |-> voices,
                              language |-> language, dataUrl |-> Null,
                              submitted |-> [text |-> text.s,
                                             voiceName |-> VoiceName(voices, selectedVoiceId)]]
    /\ UNCHANGED <<serverVars, libVars, text, language, voices, selectedVoiceId, audioSrc, history,
                   audioElement, loads, pendingPlays, succeeded, edits>>

\* handleSubmit from the settling of its fetch: a failure, or the blob, the
\* preview and (where no playback promise is awaited) the history entry
SynthesizeResponse ==
    /\ submission.pc = "fetching"
    /\ inFlight' = inFlight - 1
    /\ \E answer \in StudioSynthesisAnswers \cup {FetchRejected, BodyUnreadable} :
        \E reply \in {IF answer \in {FetchRejected, BodyUnreadable} THEN NoResponse
                       ELSE SynthesizeReply(submission, answer)} :
          LET failed == answer \in {FetchRejected, BodyUnreadable} \/ reply.status # 200
              message ==
                  IF answer = FetchRejected THEN "Failed to fetch"
                  ELSE IF answer = BodyUnreadable THEN "network error"
                  ELSE IF generation = "current"
                  THEN getErrorMessage([statusText |-> ""], reply.body,
                                       Str("Speech synthesis failed."))
                  ELSE LegacyMessage(reply.body, "Speech synthesis failed")
              dataUrl == Url(Len(succeeded) + 1)
              entry == HistoryItem(submission, dataUrl)
          IN  IF failed
              THEN /\ error' = Str(message)
                   /\ isLoading' = FALSE
                   /\ submission' = Idle
                   /\ UNCHANGED <<audioSrc, history, audioElement, pendingPlays, succeeded,
                                  invocation, outcome>>
              ELSE /\ succeeded' = Append(succeeded,
                          [text |-> submission.submitted.text,
                           voiceName |-> submission.submitted.voiceName,
                           audioSrc |-> dataUrl])
                   /\ audioSrc' = dataUrl
                   /\ IF generation = "legacy"
                      THEN /\ pendingPlays < MaxPendingPlays
                           /\ pendingPlays' = pendingPlays + 1
                           /\ isLoading' = FALSE
                           /\ history' = setHistory(history, entry)
                           /\ audioElement' = Rendered(audioElement, dataUrl)
                           /\ submission' = Idle
                           /\ UNCHANGED <<error, invocation, outcome>>
                      ELSE IF ~audioElement.attached
                      THEN /\ history' = setHistory(history, entry)
                           /\ isLoading' = FALSE
                           /\ audioElement' = Rendered(audioElement, dataUrl)
                           /\ submission' = Idle
                           /\ error' = handlePlaybackStatus("idle", error)
                           /\ invocation' = Play("submit", dataUrl, "idle")
                           /\ outcome' = Settled("submit", "idle")
                           /\ UNCHANGED pendingPlays
                      ELSE /\ audioElement' = Loaded(audioElement, dataUrl)
                           /\ submission' = [submission EXCEPT !.pc = "playing",
                                                              !.dataUrl = dataUrl]
                           /\ invocation' = Play("submit", dataUrl, "pending")
                           /\ UNCHANGED <<history, isLoading, error, pendingPlays, outcome>>
    /\ UNCHANGED <<serverVars, audioRef, text, language, voices, selectedVoiceId, loads, edits>>

\* a handleSubmit without its finally block
PlaySettles_KeepsLoading ==
    /\ submission.pc = "playing"
    /\ \E status \in {"played", "blocked"} :
          /\ error' = handlePlaybackStatus(status, error)
          /\ outcome' = Settled("submit", status)
          /\ invocation' = IF LatestPending("submit")
                            THEN [invocation EXCEPT !.status = status]
                            ELSE invocation
    /\ history' = setHistory(history, HistoryItem(submission, submission.dataUrl))
    /\ UNCHANGED isLoading
    /\ submission' = Idle
    /\ UNCHANGED <<serverVars, audioRef, inFlight, text, language, voices, selectedVoiceId, audioSrc,
                   audioElement, loads, pendingPlays, succeeded, edits>>

\* handleSubmit from the settling of play(dataUrl)
PlaySettles ==
    /\ submission.pc = "playing"
    /\ \E status \in {"played", "blocked"} :
          /\ error' = handlePlaybackStatus(status, error)
          /\ outcome' = Settled("submit", status)
          /\ invocation' = IF LatestPending("submit")
                            THEN [invocation EXCEPT !.status = status]
                            ELSE invocation
    /\ history' = setHistory(history, HistoryItem(submission, submission.dataUrl))
    /\ isLoading' = FALSE
    /\ submission' = Idle
    /\ UNCHANGED <<serverVars, audioRef, inFlight, text, language, voices, selectedVoiceId, audioSrc,
                   audioElement, loads, pendingPlays, succeeded, edits>>

\* handleHistoryPlay up to its playback: the user replays a history entry
HistoryPlay ==
    /\ \E k \in 1..Len(history) :
          /\ audioSrc' = history[k].audioSrc
          /\ IF ~audioElement.attached
             THEN UNCHANGED <<audioElement, pendingPlays, invocation>>
             ELSE IF generation = "current"
             THEN /\ pendingPlays < MaxPendingPlays
                  /\ pendingPlays' = pendingPlays + 1
                  /\ audioElement' = Loaded(audioElement, history[k].audioSrc)
                  /\ invocation' = Play("history", history[k].audioSrc, "pending")
             ELSE /\ audioElement' = [audioElement EXCEPT !.currentSrc = audioSrc,
                                                          !.played = audioSrc]
                  /\ UNCHANGED <<pendingPlays, invocation>>
          /\ audioSrc' # audioSrc \/ audioElement' # audioElement
    /\ UNCHANGED <<serverVars, audioRef, outcome, inFlight, text, language, voices, selectedVoiceId, history, isLoading,
                   error, submission, loads, succeeded, edits>>

\* handleHistoryPlay from the settling of play(item.audioSrc)
ReplaySettles ==
    /\ generation = "current"
    /\ pendingPlays > 0
    /\ \E status \in {"played", "blocked"} :
        \E latest \in {b \in BOOLEAN : /\ b => LatestPending("history")
                                       /\ (LatestPending("history") /\ pendingPlays = 1) => b} :
          /\ error' = handlePlaybackStatus(status, error)
          /\ outcome' = Settled("history", status)
          /\ invocation' = IF latest THEN [invocation EXCEPT !.status = status]
                            ELSE invocation
    /\ pendingPlays' = pendingPlays - 1
    /\ UNCHANGED <<serverVars, audioRef, inFlight, text, language, voices, selectedVoiceId, audioSrc, history,
                   isLoading, audioElement, submission, loads, succeeded, edits>>

\* the 50 ms timer of the legacy handleSubmit: load and play what is rendered
PlayTimer ==
    /\ generation = "legacy"
    /\ pendingPlays > 0
    /\ pendingPlays' = pendingPlays - 1
    /\ audioElement' = IF audioElement.attached
                       THEN [audioElement EXCEPT !.currentSrc = audioSrc,
                                                 !.played = audioSrc]
                       ELSE audioElement
    /\ UNCHANGED <<serverVars, libVars, inFlight, text, language, voices, selectedVoiceId, audioSrc, history,
                   isLoading, error, submission, loads, succeeded, edits>>

StudioNext ==
    \/ ChangeText \/ SelectVoice \/ ChangeLanguage \/ VoicesResponse
    \/ SubmitStart \/ SynthesizeResponse \/ PlaySettles
    \/ HistoryPlay \/ ReplaySettles \/ PlayTimer

\* the form of either generation in front of its proxy, the proxy configured
StudioStart ==
    /\ ServerInit({"current", "legacy"})
    /\ processEnv = Env(Str("sk-live"), Absent, Absent, Str("production"))

SpecStudio == StudioStart /\ [][StudioNext]_vars

-----------------------------------------------------------------------------
(* Claims about the proxy endpoints and the provider client *)

OnSynthesize == request.route = "synthesize"
OnVoices == request.route = "voices"
ProviderFailed == thrown # NoError
SentSynthesis == outbound # NoCall /\ outbound.endpoint = "text-to-speech/stream"

\* C1: a POST /api/synthesize whose body is not parseable JSON is answered with
\* status 400 and exactly {error: "Invalid JSON payload"}, and the provider
\* client is not invoked for it (in either generation of the handler).
C1_InvalidJsonIs400 ==
    (OnSynthesize /\ request.body.kind = "invalid") =>
        /\ response = Json(400, ErrorBody("Invalid JSON payload"))
        /\ clientCall = NoCall
        /\ outbound = NoCall

C1_Witness ==
    /\ OnSynthesize /\ request.body.kind = "invalid"
    /\ response.status = 400 /\ clientCall = NoCall

\* the first field-level message of a failed validation, in the order of the
\* schema's keys, or else the form-level one
FirstViolation(body) ==
    LET issues == synthesizeSchema(body).issues
        fields == { k \in 1..Len(issues) : issues[k].path # "" }
    IN  IF fields # {}
        THEN issues[CHOOSE k \in fields : \A j \in fields : k <= j].message
        ELSE issues[1].message

FailsValidation(body) == body.kind # "invalid" /\ ~synthesizeSchema(body).success

\* C2: a POST /api/synthesize whose JSON body fails validation is answered 422
\* with error = "Invalid input: " followed by exactly one message, the first
\* field-level violation (a script of length 0 gives "Text is required", an
\* empty voice id "Voice is required") or the form-level message when there
\* is no field-level one; the provider client is not invoked.
C2_ValidationIs422 ==
    (OnSynthesize /\ FailsValidation(request.body)) =>
        /\ response = Json(422, ErrorBody("Invalid input: " \o FirstViolation(request.body)))
        /\ clientCall = NoCall
        /\ outbound = NoCall
        /\ (request.body.kind = "object" /\ request.body.text = Text(0))
              => response.body.error = Str("Invalid input: Text is required")
        /\ (request.body.kind = "object" /\ request.body.text = Text(1)
              /\ request.body.voiceId = Str(""))
              => response.body.error = Str("Invalid input: Voice is required")
        /\ request.body.kind # "object"
              => response.body.error
                   = Str("Invalid input: Expected object, received " \o request.body.kind)

\* a body with two violations: the empty voice id and an out-of-range stability
C2_Witness ==
    /\ OnSynthesize /\ request.body.kind = "object"
    /\ request.body.text = Text(1) /\ request.body.voiceId = Str("")
    /\ request.body.stability = Num(101)
    /\ response.status = 422

\* C3 (as claimed): whenever the provider call of a validated POST
\* /api/synthesize fails, the answer is 502 with exactly
\* {error: "Synthesis service failed. Please try again."}; the upstream detail
\* is logged and is not in the response.
C3_UpstreamFailureIs502 ==
    (OnSynthesize /\ clientCall # NoCall /\ ProviderFailed) =>
        /\ response = Json(502, ErrorBody("Synthesis service failed. Please try again."))
        /\ \E k \in 1..Len(logged) : logged[k].detail = thrown.message

\* the three classes of a failure detail of /api/voices
Classification(detail) ==
    IF includes(detail, "missing_permissions") THEN "missing_permissions"
    ELSE IF includes(detail, "401") THEN "401"
    ELSE "other"

FailureDetail == IF thrown.kind = "Error" THEN thrown.message ELSE "Unknown error"

HintFor(class) ==
    CASE class = "missing_permissions" -> PERMISSIONS_HINT
      [] class = "401" -> INVALID_KEY_HINT
      [] OTHER -> CONNECTIVITY_HINT

\* C4 (as claimed): GET /api/voices answers 200 {voices} when the provider
\* call succeeds and 500 {error: message} when it fails, the message chosen by
\* priority: "missing_permissions" in the detail, else "401" in the detail
\* (exactly "Invalid or unauthorized ElevenLabs API key. Check your key."),
\* else (also for a rejection that is no Error) the connectivity hint.
C4_VoicesResponses ==
    OnVoices =>
        IF ~ProviderFailed
        THEN response.status = 200 /\ response.body.voices # Absent
             /\ response.body = [NoBody EXCEPT !.voices = response.body.voices]
        ELSE response = Json(500, ErrorBody(HintFor(Classification(FailureDetail))))

\* a field of the response body holds the text m
Carries(body, m) ==
    \/ body.error.t = "string" /\ includes(body.error.v, m)
    \/ body.details.t = "string" /\ includes(body.details.v, m)

\* C5 (as claimed): on a provider failure the body sent to the browser is a
\* function of the failure's class alone (voices: missing_permissions / 401 /
\* other; synthesize: one class), and no field of it carries the raw upstream
\* error message.
C5_NoUpstreamDetail ==
    ((OnSynthesize \/ OnVoices) /\ thrown.kind = "Error") =>
        /\ ~Carries(response.body, thrown.message)
        /\ OnVoices => response.body = ErrorBody(HintFor(Classification(thrown.message)))
        /\ OnSynthesize
              => response.body = ErrorBody("Synthesis service failed. Please try again.")

InUnitInterval(x) == x = Absent \/ (IsNum(x) /\ x.v >= 0 /\ x.v <= 100)

\* the request invariants, on the input passed to the provider client
InputInvariants(c) ==
    /\ IsStr(c.text) /\ c.text.len >= 1
    /\ IsStr(c.voiceId) /\ Len(c.voiceId.v) >= 1
    /\ c.languageCode = Absent
          \/ (IsStr(c.languageCode) /\ c.languageCode.v \in LanguageCodes \cup {"auto"})
    /\ InUnitInterval(c.stability)
    /\ InUnitInterval(c.similarityBoost)
    /\ InUnitInterval(c.styleExaggeration)
    /\ c.optimizeStreamingLatency = Absent
          \/ (IsNum(c.optimizeStreamingLatency)
              /\ c.optimizeStreamingLatency.v \in {0, 100, 200})

\* the same invariants on a request body as it arrived
BodyInvariants(body) ==
    /\ body.kind = "object"
    /\ InputInvariants([text |-> body.text, voiceId |-> body.voiceId,
                        languageCode |-> body.language, stability |-> body.stability,
                        similarityBoost |-> body.similarityBoost,
                        styleExaggeration |-> body.styleExaggeration,
                        optimizeStreamingLatency |-> body.optimizeStreamingLatency])

RejectedUnsent == response.status \in {400, 422} /\ clientCall = NoCall /\ outbound = NoCall

\* C7 (as claimed): every input passed to the provider client satisfies the
\* request invariants, and every request violating one of them is rejected
\* and never reaches the provider client.
C7_AsClaimed ==
    OnSynthesize =>
        /\ clientCall # NoCall => InputInvariants(clientCall)
        /\ ~BodyInvariants(request.body) => RejectedUnsent

\* C7 (amended): every input passed to the provider client satisfies the
\* request invariants; every request violating one of them is rejected and
\* never reaches the provider client, except that an empty-string language
\* is taken as absent and passed on as absent.
C7_InputInvariants ==
    OnSynthesize =>
        /\ clientCall # NoCall => InputInvariants(clientCall)
        /\ (request.body.kind # "object"
            \/ ~BodyInvariants([request.body EXCEPT
                                  !.language = IF @ = Str("") THEN Absent ELSE @]))
              => RejectedUnsent
        /\ (request.body.kind = "object" /\ request.body.language = Str("")
            /\ clientCall # NoCall) => clientCall.languageCode = Absent

\* a request with every style field at its bound reaches the provider
C7_Witness ==
    /\ OnSynthesize /\ outbound # NoCall
    /\ clientCall.stability = Num(100)
    /\ clientCall.optimizeStreamingLatency = Num(200)
    /\ clientCall.languageCode = Str("he")

\* C8 (as claimed): the model sent is eleven_v3 for Hebrew whatever modelId the
\* caller gave; otherwise the caller's modelId M for every M; otherwise
\* eleven_turbo_v2_5.
C8_ModelSelection ==
    SentSynthesis =>
        outbound.model_id =
            IF clientCall.languageCode = Str("he") THEN "eleven_v3"
            ELSE IF clientCall.modelId # Absent THEN clientCall.modelId.v
            ELSE "eleven_turbo_v2_5"

RequestedStability == IF clientCall.stability = Absent THEN 50 ELSE clientCall.stability.v

\* C9: under eleven_v3 a requested stability s is sent as 0.0 if s <= 0.25, as
\* 0.5 if 0.25 < s <= 0.75 and as 1.0 if s > 0.75; under any other model it is
\* sent clamped to [0,1]; so every Hebrew request sends 0.0, 0.5 or 1.0.
C9_StabilitySent ==
    SentSynthesis =>
        LET s == RequestedStability
        IN  /\ outbound.model_id = "eleven_v3" =>
                  /\ s <= 25 => outbound.stability = 0
                  /\ (s > 25 /\ s <= 75) => outbound.stability = 50
                  /\ s > 75 => outbound.stability = 100
            /\ outbound.model_id # "eleven_v3" =>
                  /\ s < 0 => outbound.stability = 0
                  /\ s > 100 => outbound.stability = 100
                  /\ (s >= 0 /\ s <= 100) => outbound.stability = s
            /\ clientCall.languageCode = Str("he") => outbound.stability \in {0, 50, 100}

\* a Hebrew request at the lower cut point
C9_Witness ==
    /\ SentSynthesis /\ OnSynthesize
    /\ clientCall.languageCode = Str("he")
    /\ clientCall.stability = Num(25) /\ outbound.stability = 0

\* a body whose script the form lets through: a catalogue language and a
\* script of 1 .. getCharacterLimit(language) characters
FormAllowsScript(body) ==
    /\ body.kind = "object"
    /\ IsStr(body.language) /\ body.language.v \in LanguageCodes
    /\ IsStr(body.text)
    /\ body.text.len >= 1 /\ body.text.len <= getCharacterLimit(body.language.v)

\* C10 (as claimed): the proxy's bound on the script is a function of the
\* target model, 3,000 characters for Hebrew and 30,000 for every other
\* language, so a script the form allows is never refused by the proxy for
\* its length.
C10_FormScriptPassesProxy ==
    (OnSynthesize /\ FormAllowsScript(request.body)) =>
        response.body.error # Str("Invalid input: Text must be shorter than 5,000 characters")

\* the submissions whose handler has got to its setHistory: those with an OK
\* response, but for the one still awaiting its playback promise
Completed ==
    IF submission.pc = "playing" THEN SubSeq(succeeded, 1, Len(succeeded) - 1)
    ELSE succeeded

\* C6: the history never has more than 5 entries; after k successful
\* syntheses it has min(k,5) entries, newest first, and they are the last
\* min(k,5) successful submissions in order, each with the script and the
\* voice name that were submitted and its own clip; edits made while a request
\* is in flight, failed submissions and replays lose, duplicate or reorder
\* nothing.
C6_HistoryIsLastFive ==
    LET k == Len(Completed)
    IN  /\ Len(history) <= 5
        /\ Len(history) = Min(k, 5)
        /\ \A i \in 1..Len(history) : history[i] = Completed[k + 1 - i]

\* six successes, the script edited between them, an older entry replayed
C6_Witness ==
    /\ Len(succeeded) = 6 /\ submission = Idle
    /\ Len(history) = 5
    /\ history[1].text # history[5].text
    /\ audioSrc = history[3].audioSrc

-----------------------------------------------------------------------------
(* hooks/useAudioPlayer.ts: the playback helper.  An element is a record     *)
(* of the properties the helper touches; a call returns the element as it    *)
(* leaves it, the PlayResult, the element calls it made in order, what it    *)
(* wrote with console.warn and whether a failure escaped to the caller.      *)

\* the sources handed to the helper; "" is the src of an element without one
Sources == {"blob:123", "blob:321"}

\* how the promise of element.play() settles: resolved, or rejected with a
\* DOMException of that name, or with an error that is no DOMException
PlaySettlements == {"resolved", "NotAllowedError", "AbortError", "TypeError"}

Element(src, currentTime, paused) ==
    [src |-> src, currentTime |-> currentTime, paused |-> paused]

\* createMockAudioElement of the tests: no source, at position 0, not playing
NewElement == Element("", 0, TRUE)

Returned(element, result, steps, warned, threw) ==
    [returned |-> TRUE, element |-> element, result |-> result, steps |-> steps,
     warned |-> warned, threw |-> threw]

\* playElement rethrowing what is no autoplay block
playElement_Rethrow(element, settles) ==
    IF settles = "resolved"
    THEN Returned([element EXCEPT !.paused = FALSE], "played", <<"play">>, <<>>, FALSE)
    ELSE IF settles \in {"NotAllowedError", "AbortError"}
         THEN Returned(element, "blocked", <<"play">>,
                       <<"[audio] Autoplay blocked by browser policy.">>, FALSE)
         ELSE Returned(element, "none", <<"play">>, <<>>, TRUE)

playElement(element, settles) ==
    IF settles = "resolved"
    THEN Returned([element EXCEPT !.paused = FALSE], "played", <<"play">>, <<>>, FALSE)
    ELSE IF settles \in {"NotAllowedError", "AbortError"}
         THEN Returned(element, "blocked", <<"play">>,
                       <<"[audio] Autoplay blocked by browser policy.">>, FALSE)
         ELSE Returned(element, "blocked", <<"play">>,
                       <<"[audio] Failed to play audio element.">>, FALSE)

\* what follows the steps made so far: the playback attempt on element
ThenPlay(element, steps, settles) ==
    LET p == playElement(element, settles)
    IN  [p EXCEPT !.steps = steps \o p.steps]

\* element.load(): the media element starts over, unless the call throws
load(element, throws) ==
    IF throws THEN element ELSE [element EXCEPT !.currentTime = 0, !.paused = TRUE]

\* setSourceAndPlay without the try around element.load()
setSourceAndPlay_NoCatch(ref, src, loadThrows, settles) ==
    IF ref = Null
    THEN Returned(ref, "idle", <<>>, <<>>, FALSE)
    ELSE LET assigned == IF ref.src # src THEN [ref EXCEPT !.src = src] ELSE ref
             steps == (IF ref.src # src THEN <<"src">> ELSE <<>>) \o <<"load">>
         IN  IF loadThrows
             THEN Returned(assigned, "none", steps, <<>>, TRUE)
             ELSE ThenPlay(load(assigned, FALSE), steps, settles)

\* play(src) of the hook
setSourceAndPlay(ref, src, loadThrows, settles) ==
    IF ref = Null
    THEN Returned(ref, "idle", <<>>, <<>>, FALSE)
    ELSE LET assigned == IF ref.src # src THEN [ref EXCEPT !.src = src] ELSE ref
             steps == (IF ref.src # src THEN <<"src">> ELSE <<>>) \o <<"load">>
         IN  ThenPlay(load(assigned, loadThrows), steps, settles)

\* replay that plays from wherever the element is
replay_NoReset(ref, seekThrows, settles) ==
    IF ref = Null \/ ref.src = ""
    THEN Returned(ref, "idle", <<>>, <<>>, FALSE)
    ELSE ThenPlay(ref, <<>>, settles)

\* replay() of the hook; the assignment to currentTime may throw
replay(ref, seekThrows, settles) ==
    IF ref = Null \/ ref.src = ""
    THEN Returned(ref, "idle", <<>>, <<>>, FALSE)
    ELSE ThenPlay(IF seekThrows THEN ref ELSE [ref EXCEPT !.currentTime = 0],
                  <<"currentTime">>, settles)

\* pause() of the hook
pause(ref) ==
    IF ref = Null
    THEN Returned(ref, "none", <<>>, <<>>, FALSE)
    ELSE Returned([ref EXCEPT !.paused = TRUE], "none", <<"pause">>, <<>>, FALSE)

\* the position a playing element may have got to
LaterPosition == 5

HookDone(call, r) ==
    /\ invocation' = call
    /\ outcome' = r
    /\ audioRef' = r.element
    /\ UNCHANGED <<serverVars, uiVars>>

\* a component renders the <audio> and React sets audioRef.current
Attach ==
    /\ audioRef = Null
    /\ audioRef' = NewElement
    /\ invocation' = NoInvocation
    /\ outcome' = NoOutcome
    /\ UNCHANGED <<serverVars, uiVars>>

\* the <audio> is unmounted
Detach ==
    /\ audioRef # Null
    /\ audioRef' = Null
    /\ invocation' = NoInvocation
    /\ outcome' = NoOutcome
    /\ UNCHANGED <<serverVars, uiVars>>

\* playback goes on
TimePasses ==
    /\ audioRef # Null
    /\ ~audioRef.paused
    /\ audioRef.currentTime = 0
    /\ audioRef' = [audioRef EXCEPT !.currentTime = LaterPosition]
    /\ invocation' = NoInvocation
    /\ outcome' = NoOutcome
    /\ UNCHANGED <<serverVars, uiVars>>

HookPlay ==
    \E src \in Sources, loadThrows \in BOOLEAN, settles \in PlaySettlements :
        HookDone([fn |-> "play", ref |-> audioRef, src |-> src,
                  loadThrows |-> loadThrows, settles |-> settles],
                 setSourceAndPlay(audioRef, src, loadThrows, settles))

HookReplay ==
    \E seekThrows \in BOOLEAN, settles \in PlaySettlements :
        HookDone([fn |-> "replay", ref |-> audioRef, seekThrows |-> seekThrows,
                  settles |-> settles],
                 replay(audioRef, seekThrows, settles))

HookPause ==
    HookDone([fn |-> "pause", ref |-> audioRef], pause(audioRef))

HookNext == Attach \/ Detach \/ TimePasses \/ HookPlay \/ HookReplay \/ HookPause

HookInit ==
    /\ ServerInit({"current"})
    /\ processEnv = Env(Str("sk-live"), Absent, Absent, Str("production"))

\* a component that uses the hook and awaits each call before the next
SpecHook == HookInit /\ [][HookNext]_vars

\* C11: play(source) never throws and returns one of "idle", "played" and
\* "blocked": "idle" exactly when no element is attached, and then nothing is
\* touched; "played" exactly when the element's play() succeeded; "blocked"
\* for every rejection of play(), whatever the error
C11_PlayOutcomes ==
    invocation.fn = "play" =>
        /\ ~outcome.threw
        /\ outcome.result \in {"idle", "played", "blocked"}
        /\ (outcome.result = "idle") <=> (invocation.ref = Null)
        /\ outcome.result = "idle" => outcome.steps = <<>> /\ audioRef = invocation.ref
        /\ (outcome.result = "played") <=>
               (invocation.ref # Null /\ invocation.settles = "resolved")
        /\ (invocation.ref # Null /\ invocation.settles # "resolved")
               => outcome.result = "blocked"

\* play() was rejected with an error that is no DOMException
C11_Witness ==
    /\ invocation.fn = "play"
    /\ invocation.ref # Null
    /\ invocation.settles = "TypeError"
    /\ outcome.result = "blocked"

\* the element calls of a play(src) that found an element attached
PlaySteps(ref, src) == (IF ref.src # src THEN <<"src">> ELSE <<>>) \o <<"load", "play">>

\* C18: play(source) on an attached element first updates the source if it
\* differs from the requested one, then attempts load() exactly once, then
\* attempts playback exactly once; when it returns the element's source is the
\* requested one; a load() that throws neither prevents the playback attempt
\* nor escapes to the caller
C18_PlayOrder ==
    (invocation.fn = "play" /\ invocation.ref # Null) =>
        /\ outcome.steps = PlaySteps(invocation.ref, invocation.src)
        /\ audioRef.src = invocation.src
        /\ ~outcome.threw
        /\ outcome.result \in {"played", "blocked"}

\* load() threw on an element that had another source, and playback went on
C18_Witness ==
    /\ invocation.fn = "play"
    /\ invocation.ref # Null
    /\ invocation.ref.src \notin {"", invocation.src}
    /\ invocation.loadThrows
    /\ outcome.steps = <<"src", "load", "play">>
    /\ outcome.result = "played"

\* C19: replay() reports "idle" and touches nothing when no element is
\* attached or the element has no source; otherwise it resets the position to 0
\* before it attempts playback (a failing reset is swallowed and playback is
\* still attempted), leaves the source alone, and reports "played" or
\* "blocked" as play does
C19_Replay ==
    invocation.fn = "replay" =>
        /\ ~outcome.threw
        /\ IF invocation.ref = Null \/ invocation.ref.src = ""
           THEN /\ outcome.result = "idle"
                /\ outcome.steps = <<>>
                /\ audioRef = invocation.ref
           ELSE /\ outcome.steps = <<"currentTime", "play">>
                /\ ~invocation.seekThrows => audioRef.currentTime = 0
                /\ audioRef.src = invocation.ref.src
                /\ outcome.result =
                       IF invocation.settles = "resolved" THEN "played" ELSE "blocked"

\* a replay of an element that had played on, the reset succeeding
C19_Witness ==
    /\ invocation.fn = "replay"
    /\ invocation.ref # Null
    /\ invocation.ref.src # ""
    /\ invocation.ref.currentTime = LaterPosition
    /\ ~invocation.seekThrows
    /\ audioRef.currentTime = 0
    /\ outcome.result = "played"

\* a replay whose reset of the position threw, playback blocked
C19_WitnessSwallowed ==
    /\ invocation.fn = "replay"
    /\ invocation.ref # Null
    /\ invocation.ref.src # ""
    /\ invocation.seekThrows
    /\ outcome.result = "blocked"

-----------------------------------------------------------------------------
(* Claims about the Studio's playback and submissions *)

\* a step in which handleSubmit receives an OK synthesis response
SynthesisSucceeds == Len(succeeded') = Len(succeeded) + 1

\* C12: after every successful synthesis response, the first of a session
\* included, the Studio hands the new object URL to play() and playback of that
\* clip is attempted on the preview element: play() finds the element attached
\* (its outcome is not "idle") and plays the new URL on it
C12_PlaybackAttempted ==
    [][(generation = "current" /\ SynthesisSucceeds) =>
           /\ audioElement.attached
           /\ audioElement'.played = audioSrc'
           /\ submission'.pc = "playing"]_vars

\* C20: the Studio serializes the user's submissions: from the start of a
\* submission until it completes the submit control is disabled, so at most
\* one /api/synthesize request of the form is in flight at any time
C20_SubmissionsSerialized ==
    /\ inFlight <= 1
    /\ inFlight = 1 => submission.pc = "fetching"
    /\ submission.pc # "idle" => isLoading /\ ~CanSubmit

\* a request is in flight and nothing but isLoading disables the control
C20_Witness ==
    /\ inFlight = 1
    /\ submission.pc = "fetching"
    /\ trim(text.s) # ""
    /\ selectedVoiceId # ""
    /\ text.len <= getCharacterLimit(language)
    /\ Len(succeeded) > 0

-----------------------------------------------------------------------------
(* lib/env.ts: getServerEnv called again and again while the environment of  *)
(* the process is edited                                                     *)

\* the settings an edit of the environment may leave behind
EnvSettings ==
    { Env(key, model, latency, mode) :
        key \in {Str("sk-live"), Str("sk-next"), Str("")},
        model \in {Absent, Str("eleven_flash_v2_5")},
        latency \in {Absent, Str("3")},
        mode \in {Str("production"), Str("development")} }

\* .env is edited, or the process is restarted in another mode
EditEnvironment ==
    /\ \E penv \in EnvSettings :
          /\ penv # processEnv
          /\ processEnv' = penv
    /\ UNCHANGED <<generation, cachedEnv, request, response, clientCall, outbound, thrown,
                   logged, uiVars, libVars>>

\* server code calls getServerEnv()
CallGetServerEnv ==
    /\ \E r \in {getServerEnv(processEnv, cachedEnv)} :
          /\ cachedEnv' = r.cache
          /\ invocation' = [fn |-> "getServerEnv", env |-> processEnv, cache |-> cachedEnv]
          /\ outcome' = [returned |-> TRUE, threw |-> r.threw, env |-> r.env,
                         validated |-> r.validated]
    /\ UNCHANGED <<generation, processEnv, request, response, clientCall, outbound, thrown,
                   logged, uiVars, audioRef>>

EnvNext == EditEnvironment \/ CallGetServerEnv

SpecEnv == ServerInit({"current"}) /\ [][EnvNext]_vars

InDevelopment(penv) == penv.NODE_ENV = Str("development")

\* C13: outside development mode getServerEnv reads and validates the
\* environment at most once: once a call has succeeded every later call returns
\* the cached configuration, even if the environment has changed since; in
\* development mode every call discards the cache and reads and validates the
\* environment again, so an edit is observed by the next call
C13_EnvAccess ==
    invocation.fn = "getServerEnv" =>
        LET parsed == envSchema(invocation.env)
        IN  /\ (~InDevelopment(invocation.env) /\ invocation.cache.set) =>
                   /\ ~outcome.validated
                   /\ ~outcome.threw
                   /\ outcome.env = invocation.cache
                   /\ cachedEnv = invocation.cache
            /\ InDevelopment(invocation.env) =>
                   /\ outcome.validated
                   /\ outcome.threw = ~parsed.success
                   /\ outcome.env = parsed.data
                   /\ cachedEnv = parsed.data

\* a call outside development mode answered from the cache although the
\* environment now holds another key
C13_Witness ==
    /\ invocation.fn = "getServerEnv"
    /\ ~InDevelopment(invocation.env)
    /\ invocation.cache.set
    /\ envSchema(invocation.env).success
    /\ envSchema(invocation.env).data # invocation.cache
    /\ outcome.env = invocation.cache

\* a call in development mode that observed an edited key
C13_WitnessDevelopment ==
    /\ invocation.fn = "getServerEnv"
    /\ InDevelopment(invocation.env)
    /\ invocation.cache.set
    /\ outcome.env.set
    /\ outcome.env # invocation.cache

-----------------------------------------------------------------------------
(* Library functions applied to inputs drawn at the start *)

\* the proxy configured and idle while a library function is exercised
Configured == Env(Str("sk-live"), Absent, Absent, Str("production"))

\* a library function is about to be applied to one of inputs
LibraryInit(fn, inputs) ==
    /\ ProxyInit({"current"})
    /\ processEnv = Configured
    /\ audioRef = Null
    /\ invocation \in { [fn |-> fn, input |-> i] : i \in inputs }
    /\ outcome = NoOutcome

\* the function returns value
LibraryReturn(value) ==
    /\ outcome = NoOutcome
    /\ outcome' = [returned |-> TRUE, value |-> value]
    /\ UNCHANGED <<serverVars, uiVars, audioRef, invocation>>

-----------------------------------------------------------------------------
(* lib/languages.ts: resolveLanguageCode on labels, ISO tags and free text *)

\* one character of String.prototype.toUpperCase
UpperChar(c) ==
    IF IsLowerLetter(c)
    THEN LET k == CHOOSE k \in 1..Len(LowerCase) : SubSeq(LowerCase, k, k) = c
         IN  SubSeq(UpperCase, k, k)
    ELSE c

RECURSIVE toUpperCase(_)
toUpperCase(s) ==
    IF Len(s) = 0 THEN ""
    ELSE UpperChar(SubSeq(s, 1, 1)) \o toUpperCase(SubSeq(s, 2, Len(s)))

\* a lower-case string as a user may type it
Casings == {"lower", "UPPER", "Title"}
Cased(s, casing) ==
    CASE casing = "lower" -> s
      [] casing = "UPPER" -> toUpperCase(s)
      [] casing = "Title" -> UpperChar(SubSeq(s, 1, 1)) \o SubSeq(s, 2, Len(s))

Paddings == {"none", "spaces", "control"}
Padded(s, padding) ==
    CASE padding = "none" -> s
      [] padding = "spaces" -> "  " \o s \o " "
      [] padding = "control" -> "\t" \o s \o "\n"

\* tags shaped xx, xx-yy or xx_yy that are no key of NAME_TO_CODE
IsoTags == {"en-us", "en_gb", "pt-br", "he_il", "uk-ua", "xx", "xx-yy", "zz_zz", "iw"}

\* text that is neither a key of NAME_TO_CODE nor shaped like an ISO tag
FreeText ==
    { Absent, Null, Str(""), Str(" "), Str("\t\n"), Str("klingon"), Str("hebrew modern"),
      Str("hebrew(modern)"), Str("en-usa"), Str("en us"), Str("eng"), Str("e"), Str("en-"),
      Str("en-u"), Str("e1"), Str("12"), Str("en-12"), Str("en.us"), Str("english-us"),
      Str("-en"), Str("he he") }

LanguageInputs ==
    { [shape |-> "label", key |-> k, text |-> Str(Padded(Cased(k, c), p))] :
        k \in DOMAIN NAME_TO_CODE, c \in Casings, p \in Paddings }
    \cup { [shape |-> "iso", key |-> SubSeq(t, 1, 2), text |-> Str(Padded(Cased(t, c), p))] :
             t \in IsoTags, c \in Casings, p \in Paddings }
    \cup { [shape |-> "free", key |-> "", text |-> t] : t \in FreeText }

ResolveLanguageCode ==
    /\ invocation.fn = "resolveLanguageCode"
    /\ LibraryReturn(resolveLanguageCode(invocation.input.text))

LanguagesNext == ResolveLanguageCode

SpecLanguages == LibraryInit("resolveLanguageCode", LanguageInputs) /\ [][LanguagesNext]_vars

\* C14: resolveLanguageCode is a trimmed, case-insensitive lookup: a label of
\* the name table in any casing and with any surrounding white space yields
\* that label's code; an input shaped like an ISO tag that is not in the table
\* yields the code of its two-letter prefix; empty, blank, absent or otherwise
\* unrecognized text yields no match
C14_ResolveLanguageCode ==
    (invocation.fn = "resolveLanguageCode" /\ outcome.returned) =>
        LET input == invocation.input
        IN  CASE input.shape = "label" -> outcome.value = Str(NAME_TO_CODE[input.key])
              [] input.shape = "iso" -> outcome.value = Str(input.key)
              [] input.shape = "free" -> outcome.value = Absent

\* "  Hebrew (modern) " resolved to he
C14_Witness ==
    /\ invocation.fn = "resolveLanguageCode"
    /\ invocation.input.key = "hebrew (modern)"
    /\ invocation.input.text = Str("  Hebrew (modern) ")
    /\ outcome.returned
    /\ outcome.value = Str("he")

\* "EN-US" resolved to en
C14_WitnessIso ==
    /\ invocation.fn = "resolveLanguageCode"
    /\ invocation.input.text = Str("EN-US")
    /\ outcome.returned
    /\ outcome.value = Str("en")

-----------------------------------------------------------------------------
(* components/tts/TtsStudio.tsx: dedupeVoices on voice lists *)

MaxVoices == 3

\* voices that share ids and differ in the rest
VoiceOptions == { [id |-> id, name |-> name] : id \in {"v1", "v2"}, name \in {"Noa", "Noam"} }

RECURSIVE VoiceLists(_)
VoiceLists(n) ==
    IF n = 0 THEN { <<>> }
    ELSE VoiceLists(n - 1)
         \cup { Append(vs, v) : vs \in { l \in VoiceLists(n - 1) : Len(l) = n - 1 },
                                v \in VoiceOptions }

DedupeVoices ==
    /\ invocation.fn = "dedupeVoices"
    /\ LibraryReturn(dedupeVoices(invocation.input))

VoicesNext == DedupeVoices

SpecVoices == LibraryInit("dedupeVoices", VoiceLists(MaxVoices)) /\ [][VoicesNext]_vars

\* where id occurs in a voice list
Occurrences(vs, id) == { k \in 1..Len(vs) : vs[k].id = id }
FirstOccurrence(vs, id) == CHOOSE k \in Occurrences(vs, id) : \A j \in Occurrences(vs, id) : k <= j

\* C15: in the list dedupeVoices returns each id of the input occurs exactly
\* once, the entry kept for an id is its first occurrence in the input, the
\* kept entries are in input order, and dedupeVoices changes nothing when
\* applied to its own output
C15_DedupeVoices ==
    (invocation.fn = "dedupeVoices" /\ outcome.returned) =>
        LET input == invocation.input
            output == outcome.value
        IN  /\ \A k \in 1..Len(input) : Cardinality(Occurrences(output, input[k].id)) = 1
            /\ \A k \in 1..Len(output) :
                  /\ Occurrences(input, output[k].id) # {}
                  /\ output[k] = input[FirstOccurrence(input, output[k].id)]
            /\ \A k, l \in 1..Len(output) :
                  k < l => FirstOccurrence(input, output[k].id)
                               < FirstOccurrence(input, output[l].id)
            /\ dedupeVoices(output) = output

\* an id given twice with different names around another voice
C15_Witness ==
    /\ invocation.fn = "dedupeVoices"
    /\ Len(invocation.input) = 3
    /\ invocation.input[1].id = invocation.input[3].id
    /\ invocation.input[1] # invocation.input[3]
    /\ invocation.input[2].id # invocation.input[1].id
    /\ outcome.returned
    /\ outcome.value = SubSeq(invocation.input, 1, 2)

-----------------------------------------------------------------------------
(* lib/http.ts: readJsonSafe and getErrorMessage *)

Bool(b) == [t |-> "boolean", v |-> b]
NoMembers == [k \in {} |-> Null]

Failed == [ok |-> FALSE, value |-> Absent]
Parsed(value) == [ok |-> TRUE, value |-> value]

Digits == "0123456789"
DigitValue(c) == (CHOOSE k \in 1..Len(Digits) : SubSeq(Digits, k, k) = c) - 1
IsDigits(s) ==
    /\ Len(s) > 0
    /\ \A k \in 1..Len(s) : \E d \in 1..Len(Digits) : SubSeq(Digits, d, d) = SubSeq(s, k, k)
    /\ Len(s) > 1 => SubSeq(s, 1, 1) # "0"

RECURSIVE NumberValue(_)
NumberValue(s) ==
    IF Len(s) = 0 THEN 0
    ELSE 10 * NumberValue(SubSeq(s, 1, Len(s) - 1)) + DigitValue(SubSeq(s, Len(s), Len(s)))

HasQuote(s) == \E k \in 1..Len(s) : SubSeq(s, k, k) = "\""

\* JSON text of a string without escapes: "chars"
IsQuoted(s) ==
    /\ Len(s) >= 2
    /\ SubSeq(s, 1, 1) = "\""
    /\ SubSeq(s, Len(s), Len(s)) = "\""
    /\ ~HasQuote(SubSeq(s, 2, Len(s) - 1))

\* JSON.parse of a literal, a non-negative integer or a string
ParseScalar(s) ==
    CASE s = "null" -> Parsed(Null)
      [] s = "true" -> Parsed(Bool(TRUE))
      [] s = "false" -> Parsed(Bool(FALSE))
      [] IsDigits(s) -> Parsed(Num(100 * NumberValue(s)))
      [] IsQuoted(s) -> Parsed(Str(SubSeq(s, 2, Len(s) - 1)))
      [] OTHER -> Failed

\* JSON.parse of the texts the model uses: a scalar, {} or an object with one
\* member whose value is a scalar
JsonParse(s) ==
    IF ParseScalar(s).ok THEN ParseScalar(s)
    ELSE IF s = "{}" THEN Parsed(Obj(NoMembers))
    ELSE IF Len(s) >= 7 /\ SubSeq(s, 1, 2) = "{\"" /\ SubSeq(s, Len(s), Len(s)) = "}"
              /\ \E p \in 3..(Len(s) - 2) : SubSeq(s, p, p + 1) = "\":"
    THEN LET p == CHOOSE p \in 3..(Len(s) - 2) :
                      /\ SubSeq(s, p, p + 1) = "\":"
                      /\ \A q \in 3..(p - 1) : SubSeq(s, q, q + 1) # "\":"
             key == SubSeq(s, 3, p - 1)
             member == ParseScalar(SubSeq(s, p + 2, Len(s) - 1))
         IN  IF Len(key) > 0 /\ ~HasQuote(key) /\ member.ok
             THEN Parsed(Obj(key :> member.value))
             ELSE Failed
    ELSE Failed

\* response.json(): throws on a body that is no JSON text
ResponseJson(resp) ==
    LET parsed == JsonParse(resp.body)
    IN  [threw |-> ~parsed.ok, value |-> parsed.value]

\* readJsonSafe without its try
readJsonSafe_NoCatch(resp) == ResponseJson(resp)

\* readJsonSafe(response): undefined is Absent
readJsonSafe(resp) ==
    LET parsed == ResponseJson(resp)
    IN  IF parsed.threw THEN [threw |-> FALSE, value |-> Absent]
        ELSE [threw |-> FALSE, value |-> parsed.value]

\* response bodies with the value a JSON parser gives for them, and bodies no
\* JSON parser accepts
JsonTexts ==
    { [body |-> "{\"ok\":true}", valid |-> TRUE, value |-> Obj("ok" :> Bool(TRUE))],
      [body |-> "{\"error\":\"Invalid API key\"}", valid |-> TRUE,
       value |-> Obj("error" :> Str("Invalid API key"))],
      [body |-> "{\"error\":null}", valid |-> TRUE, value |-> Obj("error" :> Null)],
      [body |-> "{\"count\":42}", valid |-> TRUE, value |-> Obj("count" :> Num(4200))],
      [body |-> "{}", valid |-> TRUE, value |-> Obj(NoMembers)],
      [body |-> "\"Service down\"", valid |-> TRUE, value |-> Str("Service down")],
      [body |-> "\"\"", valid |-> TRUE, value |-> Str("")],
      [body |-> "null", valid |-> TRUE, value |-> Null],
      [body |-> "false", valid |-> TRUE, value |-> Bool(FALSE)],
      [body |-> "0", valid |-> TRUE, value |-> Num(0)],
      [body |-> "502", valid |-> TRUE, value |-> Num(50200)],
      [body |-> "not json", valid |-> FALSE, value |-> Absent],
      [body |-> "", valid |-> FALSE, value |-> Absent],
      [body |-> "{", valid |-> FALSE, value |-> Absent],
      [body |-> "{\"error\":", valid |-> FALSE, value |-> Absent],
      [body |-> "{\"error\":\"Invalid API key\"", valid |-> FALSE, value |-> Absent],
      [body |-> "{error:\"Invalid API key\"}", valid |-> FALSE, value |-> Absent],
      [body |-> "\"Service down", valid |-> FALSE, value |-> Absent],
      [body |-> "nul", valid |-> FALSE, value |-> Absent],
      [body |-> "007", valid |-> FALSE, value |-> Absent],
      [body |-> "<html>Bad Gateway</html>", valid |-> FALSE, value |-> Absent] }

ReadInputs == { [fn |-> "readJsonSafe", body |-> j] : j \in JsonTexts }

\* the arguments of getErrorMessage
ResponseValues ==
    { Absent, [statusText |-> ""], [statusText |-> "  "], [statusText |-> "Not Found"],
      [statusText |-> " Bad Gateway "] }

PayloadValues ==
    { Absent, Null, Num(4200), Bool(TRUE),
      Str("Invalid API key"), Str("  Quota exceeded "), Str(""), Str("  "),
      Obj(NoMembers), Obj("message" :> Str("ignored")),
      Obj("error" :> Str("Invalid API key")), Obj("error" :> Str(" Quota exceeded  ")),
      Obj("error" :> Str("")), Obj("error" :> Str(" \t")),
      Obj("error" :> Num(4200)), Obj("error" :> Null),
      ErrorBody("Synthesis service failed. Please try again."), NoBody }

FallbackValues == { Absent, Str("Speech synthesis failed."), Str("") }

MessageInputs ==
    { [fn |-> "getErrorMessage", response |-> r, payload |-> p, fallback |-> f] :
        r \in ResponseValues, p \in PayloadValues, f \in FallbackValues }

ReadJsonSafe ==
    /\ invocation.fn = "http"
    /\ invocation.input.fn = "readJsonSafe"
    /\ \E r \in {readJsonSafe([body |-> invocation.input.body.body])} :
          LibraryReturn(IF r.threw THEN [threw |-> TRUE] ELSE r.value)

GetErrorMessage ==
    /\ invocation.fn = "http"
    /\ invocation.input.fn = "getErrorMessage"
    /\ LibraryReturn(getErrorMessage(invocation.input.response, invocation.input.payload,
                                     invocation.input.fallback))

HttpNext == ReadJsonSafe \/ GetErrorMessage

SpecHttp == LibraryInit("http", ReadInputs \cup MessageInputs) /\ [][HttpNext]_vars

\* a string that is not blank
NonBlank(value) == "t" \in DOMAIN value /\ value.t = "string" /\ trim(value.v) # ""

\* the member error of an object payload, Absent where there is none
ErrorMember(payload) ==
    IF "t" \notin DOMAIN payload THEN payload.error
    ELSE IF payload.t = "object" /\ "error" \in DOMAIN payload.v THEN payload.v["error"]
    ELSE Absent

\* C17: getErrorMessage(response, payload, fallback) selects by strict
\* priority: a non-blank string payload or a non-blank string payload.error,
\* trimmed; otherwise the response's non-blank status text; otherwise the
\* fallback, which defaults to "Request failed".  readJsonSafe returns the
\* parsed value of a valid JSON body and undefined, without throwing, for an
\* invalid one
C17_HttpHelpers ==
    (invocation.fn = "http" /\ outcome.returned) =>
        LET input == invocation.input
        IN  IF input.fn = "readJsonSafe"
            THEN outcome.value = IF input.body.valid THEN input.body.value ELSE Absent
            ELSE outcome.value =
                    IF NonBlank(input.payload) THEN trim(input.payload.v)
                    ELSE IF NonBlank(ErrorMember(input.payload))
                    THEN trim(ErrorMember(input.payload).v)
                    ELSE IF input.response # Absent /\ trim(input.response.statusText) # ""
                    THEN trim(input.response.statusText)
                    ELSE IF input.fallback = Absent THEN "Request failed"
                    ELSE input.fallback.v

\* a payload error that wins over a status text
C17_Witness ==
    /\ invocation.fn = "http"
    /\ invocation.input.fn = "getErrorMessage"
    /\ invocation.input.payload = Obj("error" :> Str(" Quota exceeded  "))
    /\ invocation.input.response = [statusText |-> "Not Found"]
    /\ outcome.returned
    /\ outcome.value = "Quota exceeded"

\* nothing given: the default message
C17_WitnessDefault ==
    /\ invocation.fn = "http"
    /\ invocation.input.fn = "getErrorMessage"
    /\ invocation.input.payload = Absent
    /\ invocation.input.response = Absent
    /\ invocation.input.fallback = Absent
    /\ outcome.returned
    /\ outcome.value = "Request failed"

\* a body that is no JSON read as undefined
C17_WitnessInvalid ==
    /\ invocation.fn = "http"
    /\ invocation.input.fn = "readJsonSafe"
    /\ invocation.input.body.body = "not json"
    /\ outcome.returned
    /\ outcome.value = Absent

-----------------------------------------------------------------------------
(* lib/elevenlabs.ts: synthesizeSpeechStream against the provider's answers *)

StatusTexts ==
    (200 :> "OK") @@ (204 :> "No Content") @@ (400 :> "Bad Request")
    @@ (401 :> "Unauthorized") @@ (429 :> "Too Many Requests")
    @@ (500 :> "Internal Server Error") @@ (503 :> "Service Unavailable")

\* what the provider may answer: any of the statuses, a body that is no JSON,
\* JSON or JSON for a falsy value, with or without a body stream; or no answer
ProviderAnswers ==
    { Http(status, StatusTexts[status], json, stream) :
        status \in DOMAIN StatusTexts,
        json \in {NotJson, FalsyJson, JsonBody("{}"),
                  JsonBody("{\"detail\":{\"status\":\"invalid_api_key\"}}")},
        stream \in BOOLEAN }
    \cup {Network}

StreamInputs ==
    { i \in DirectInputs :
        /\ i.languageCode \in {Absent, Str("he")}
        /\ i.stability = Absent /\ i.similarityBoost = Absent /\ i.styleExaggeration = Absent
        /\ i.optimizeStreamingLatency = Absent /\ i.modelId = Absent }

\* server code calls synthesizeSpeechStream(input); the provider answers
SynthesizeSpeechStream ==
    /\ invocation.fn = "synthesizeSpeechStream"
    /\ outcome = NoOutcome
    /\ \E r \in {synthesizeSpeechStream(invocation.input.input, processEnv, cachedEnv,
                                        invocation.input.answer)} :
          /\ outcome' = [returned |-> TRUE, value |-> r.result]
          /\ cachedEnv' = r.cache
          /\ outbound' = r.outbound
    /\ UNCHANGED <<generation, processEnv, request, response, clientCall, thrown, logged,
                   uiVars, audioRef, invocation>>

ClientNext == SynthesizeSpeechStream

SpecClient ==
    LibraryInit("synthesizeSpeechStream",
                [input : StreamInputs, answer : ProviderAnswers]) /\ [][ClientNext]_vars

Answered == invocation.fn = "synthesizeSpeechStream" /\ outcome.returned
Answer == invocation.input.answer
SuccessStatus == Answer.kind = "http" /\ Answer.status \in 200..299
FailureStatus == Answer.kind = "http" /\ Answer.status \notin 200..299

\* the failure a non-success answer is to raise, with the detail given
FailureWith(detail) ==
    Error("Failed to synthesize speech (" \o StatusString(Answer.status) \o " "
              \o Answer.statusText \o "): " \o detail)

\* the claim as it stands: the detail is the body whenever the body is JSON
C16_AsClaimed ==
    Answered =>
        /\ outcome.value.kind = "stream" => SuccessStatus /\ Answer.stream
        /\ FailureStatus =>
              outcome.value = FailureWith(IF Answer.json.valid THEN Answer.json.text
                                          ELSE "unknown error")
        /\ (SuccessStatus /\ ~Answer.stream) => outcome.value.kind = "Error"

\* C16: synthesizeSpeechStream returns a byte stream only when the provider
\* answered with a success status and a body; for a non-success status it
\* raises a failure carrying the status code and status text, with the
\* provider's JSON detail when the body is JSON for a truthy value and with
\* "unknown error" when the body is no JSON (the parse failure does not escape)
\* or is JSON for a falsy value; for a success status without a body it raises
C16_StreamOrFailure ==
    Answered =>
        /\ outcome.value.kind = "stream" => SuccessStatus /\ Answer.stream
        /\ FailureStatus =>
              outcome.value = FailureWith(IF Answer.json.valid /\ Answer.json.truthy
                                          THEN Answer.json.text
                                          ELSE "unknown error")
        /\ (SuccessStatus /\ ~Answer.stream) => outcome.value.kind = "Error"

\* a 503 whose body is no JSON raised as "unknown error"
C16_Witness ==
    /\ Answered
    /\ Answer.status = 503
    /\ ~Answer.json.valid
    /\ outcome.value =
           Error("Failed to synthesize speech (503 Service Unavailable): unknown error")

\* a 401 with a JSON body raised with the body as its detail
C16_WitnessDetail ==
    /\ Answered
    /\ Answer.status = 401
    /\ Answer.json.valid /\ Answer.json.truthy /\ Answer.json.text # "{}"
    /\ outcome.value = FailureWith(Answer.json.text)

\* a 204 without a body raised
C16_WitnessNoBody ==
    /\ Answered
    /\ Answer.status = 204
    /\ ~Answer.stream
    /\ outcome.value = Error("Response body is null")

\* a 500 whose body is the JSON text null raised as "unknown error"
C16_WitnessFalsy ==
    /\ Answered
    /\ Answer.status = 500
    /\ Answer.json = FalsyJson
    /\ outcome.value =
           Error("Failed to synthesize speech (500 Internal Server Error): unknown error")

-----------------------------------------------------------------------------
(* Claims about the language catalogue *)

\* C30: for every input resolveLanguageCode returns no match or a code of the
\* supported catalogue (the LanguageCode set of LANGUAGE_OPTIONS)
C30_CatalogueCode ==
    (invocation.fn = "resolveLanguageCode" /\ outcome.returned) =>
        \/ outcome.value = Absent
        \/ outcome.value.v \in LanguageCodes


(* Claims about the provider credential *)
KeyMissing ==
    \/ processEnv.ELEVENLABS_API_KEY = Absent
    \/ processEnv.ELEVENLABS_API_KEY = Str("")

\* the request went through a client function, not through a stub of it
ClientRan ==
    /\ thrown.kind # "other"
    /\ \/ request.route \in {"voices", "client", "client-buffer"}
       \/ request.route = "synthesize" /\ clientCall # NoCall

ConfigurationError ==
    /\ thrown.kind = "Error"
    /\ includes(thrown.message, "Invalid environment configuration")

\* C29: no request goes to the provider without a validated, non-empty key; with
\* the key missing or empty the client functions raise a configuration error
\* before any fetch, nothing is cached, and the proxies answer 500 (voices) and
\* 502 (synthesize)
C29_Credential ==
    /\ outbound # NoCall =>
          /\ outbound.apiKey # ""
          /\ processEnv.ELEVENLABS_API_KEY = Str(outbound.apiKey)
          /\ cachedEnv.set
    /\ (KeyMissing /\ request # NoRequest) =>
          /\ outbound = NoCall
          /\ cachedEnv = NoEnv
          /\ ClientRan => ConfigurationError
          /\ (ClientRan /\ request.route = "voices") => response.status = 500
          /\ (ClientRan /\ request.route = "synthesize") => response.status = 502

C29_Witness ==
    /\ processEnv.ELEVENLABS_API_KEY = Str("")
    /\ request.route = "synthesize"
    /\ ClientRan
    /\ ConfigurationError
    /\ response.status = 502

C29_WitnessVoices ==
    /\ processEnv.ELEVENLABS_API_KEY = Absent
    /\ request.route = "voices"
    /\ ConfigurationError
    /\ response.status = 500

C29_WitnessBuffered ==
    /\ KeyMissing
    /\ request.route = "client-buffer"
    /\ ConfigurationError
    /\ outbound = NoCall

C29_WitnessSent ==
    /\ outbound # NoCall
    /\ outbound.apiKey = "sk-live"


(* Claims about playback in the form *)
\* the render of the submission is the new head of the history
Prepended(dataUrl) ==
    /\ Len(history') = Min(Len(history) + 1, MAX_HISTORY)
    /\ history'[1] = [text |-> submission.submitted.text,
                      voiceName |-> submission.submitted.voiceName,
                      audioSrc |-> dataUrl]
    /\ \A k \in 2..Len(history') : history'[k] = history[k - 1]

\* handleSubmit of the current form receives its OK response
RenderArrives == generation = "current" /\ SynthesisSucceeds

\* handleSubmit of the current form receives the result of play(dataUrl)
PlayReturns ==
    /\ generation = "current"
    /\ \/ submission.pc = "playing"
       \/ submission.pc = "fetching" /\ SynthesisSucceeds
    /\ submission'.pc = "idle"

\* C21: after a successful synthesis a "blocked" playback is no failure: the
\* render is the preview source and is prepended to the history and the prompt
\* "Audio ready. Tap play to listen." is shown; "played" clears the message and
\* "idle" leaves it as it is
C21_PlaybackStatus ==
    [][ /\ RenderArrives => audioSrc' = succeeded'[Len(succeeded')].audioSrc
        /\ PlayReturns =>
              /\ outcome'.by = "submit"
              /\ outcome'.value \in {"blocked", "played", "idle"}
              /\ outcome'.value = "blocked" => error' = Str(AUDIO_BLOCKED_MESSAGE)
              /\ outcome'.value = "played" => error' = Null
              /\ outcome'.value = "idle" => error' = error
              /\ Prepended(succeeded'[Len(succeeded')].audioSrc)
              /\ ~isLoading'
              /\ submission.pc = "playing" => audioSrc' = audioSrc ]_vars

C21_Witness ==
    /\ outcome = Settled("submit", "blocked")
    /\ error = Str(AUDIO_BLOCKED_MESSAGE)
    /\ Len(history) >= 2
    /\ history[1].audioSrc = audioSrc
    /\ ~isLoading

C21_WitnessPlayed ==
    /\ outcome = Settled("submit", "played")
    /\ error = Null
    /\ Len(history) >= 2

C21_WitnessIdle ==
    /\ outcome = Settled("submit", "idle")
    /\ error # Null
    /\ Len(history) = 1


\* every play the form has issued has returned, and no submission is under way
AllCompleted == submission = Idle /\ pendingPlays = 0

\* C22: a new playback request supersedes the earlier ones: once every
\* submission and history replay has completed, audioSrc and the source of the
\* audio element are the source of the request issued last
C22_LatestSource ==
    (generation = "current" /\ invocation.fn = "play" /\ AllCompleted) =>
        /\ audioSrc = invocation.src
        /\ audioElement.attached
        /\ audioElement.currentSrc = invocation.src

\* a replay of an older entry was issued while the play of a new render was
\* pending, and both have returned
C22_Witness ==
    /\ generation = "current"
    /\ AllCompleted
    /\ invocation.fn = "play"
    /\ invocation.by = "history"
    /\ outcome.by = "submit"
    /\ Len(history) >= 2
    /\ audioSrc = history[2].audioSrc
    /\ audioElement.currentSrc = audioSrc

C22_WitnessSubmit ==
    /\ generation = "current"
    /\ AllCompleted
    /\ invocation.fn = "play"
    /\ invocation.by = "submit"
    /\ outcome.by = "history"
    /\ audioSrc = history[1].audioSrc


StaleResponseArrives == Stale \in loads /\ loads' = loads \ {Stale}

\* C24: a /api/voices response that arrives after its effect run was cleaned up
\* changes neither the voice list, nor the selected voice, nor the displayed
\* error; only the response of the latest run updates them
C24_StaleResponses ==
    [][ /\ StaleResponseArrives => UNCHANGED <<voices, selectedVoiceId, error>>
        /\ voices' # voices => \E run \in loads : run.live
        /\ Cardinality({run \in loads : run.live}) <= 1 ]_vars

\* the latest run has been answered, the run before it is still in flight, and
\* an error is on display
C24_Witness ==
    /\ loads = {Stale}
    /\ Len(voices) > 0
    /\ error # Null

C24_WitnessLanguage ==
    /\ Stale \in loads
    /\ language # "he"
    /\ \E run \in loads : run.live /\ run.language = language


\* the lists the provider returns as the account's voices change, or its refusal
VoicesAnswer(list) ==
    Http(200, "OK", [JsonBody("") EXCEPT !.voices = [t |-> "array", v |-> list]], TRUE)

ProviderVoiceLists ==
    { << ProviderVoice("v1", "Noa", [NoLabels EXCEPT !.language = Str("Hebrew (Modern)")]),
         ProviderVoice("v2", "Adam", [NoLabels EXCEPT !.language = Str("he")]),
         ProviderVoice("v1", "Noam", [NoLabels EXCEPT !.Locale = Str("en-US")]) >>,
      << ProviderVoice("v3", "Emma", [NoLabels EXCEPT !.Locale = Str("en-US")]),
         ProviderVoice("v2", "Adam", [NoLabels EXCEPT !.language = Str("he")]) >>,
      << ProviderVoice("v1", "Noa", [NoLabels EXCEPT !.language = Str("he")]),
         ProviderVoice("v3", "Emma", [NoLabels EXCEPT !.language = Str("English")]) >>,
      << ProviderVoice("v4", "Jean", [NoLabels EXCEPT !.language = Str("fr")]) >> }

LoadingAnswers ==
    { VoicesAnswer(list) : list \in ProviderVoiceLists }
        \cup { Http(401, "Unauthorized", NotJson, TRUE) }

VoicesArrive == LoadVoicesSettles(LoadingAnswers)

VoiceLoadingNext == ChangeLanguage \/ SelectVoice \/ VoicesArrive

\* the form's language and voice selects in front of a provider whose voices
\* change
SpecVoiceLoading == StudioStart /\ [][VoiceLoadingNext]_vars

\* C27: with a non-empty filtered voice list the selected voice is one of that
\* list: a selection that is empty or not in the list is replaced by the first
\* filtered voice; with an empty filtered list the selection is left as it is
C27_SelectionInFilteredList ==
    [][ LET filtered == filteredVoices(language', voices')
            kept == selectedVoiceId # "" /\ HasVoice(filtered, selectedVoiceId)
        IN  /\ Len(filtered) > 0 => HasVoice(filtered, selectedVoiceId')
            /\ (Len(filtered) > 0 /\ (language' # language \/ voices' # voices)) =>
                  selectedVoiceId' = IF kept THEN selectedVoiceId ELSE filtered[1].id
            /\ (Len(filtered) = 0 /\ language' # language) =>
                  selectedVoiceId' = selectedVoiceId ]_vars

\* a change of the language replaced the selection by the first voice of the
\* new filtered list
C27_Witness ==
    /\ language = "en"
    /\ Len(filteredVoices("he", voices)) > 0
    /\ Len(filteredVoices("en", voices)) > 0
    /\ selectedVoiceId = filteredVoices("en", voices)[1].id

\* an empty filtered list left the selection
C27_WitnessEmpty ==
    /\ language = "en"
    /\ Len(voices) > 0
    /\ filteredVoices(language, voices) = <<>>
    /\ selectedVoiceId # ""


\* every /api/voices fetch settles, with a response or a rejection
SpecVoiceLoadingFair == SpecVoiceLoading /\ WF_vars(VoicesArrive)

\* C28: voice loading settles: after the mount or a change by the user the
\* fetches and selection updates driven by the effects end, whatever lists the
\* provider returns, in a state with no fetch in flight
C28_VoiceLoadingSettles == <>[](loads = {})


(* Claims about submissions *)
\* handleSubmit ends in its catch: the fetch rejected, the response was not OK,
\* or its body could not be read
SubmissionFails ==
    /\ submission.pc = "fetching"
    /\ submission'.pc = "idle"
    /\ succeeded' = succeeded

\* C26: a failed submission leaves the history and the preview source as they
\* were and sets a non-empty error message; the history grows only by a
\* submission whose proxy response was OK
C26_FailedSubmission ==
    [][ /\ (generation = "current" /\ SubmissionFails) =>
              /\ history' = history
              /\ audioSrc' = audioSrc
              /\ error' # Null
              /\ error'.v # ""
        /\ history' # history =>
              \/ SynthesisSucceeds
              \/ submission.pc = "playing" ]_vars

\* after a render, a submission failed on a refusal of the provider
C26_Witness ==
    /\ generation = "current"
    /\ submission = Idle
    /\ Len(history) = Len(succeeded)
    /\ Len(history) >= 1
    /\ audioSrc = history[1].audioSrc
    /\ error # Null
    /\ error.v \notin {AUDIO_BLOCKED_MESSAGE, "Failed to fetch", "network error"}
    /\ ~isLoading

C26_WitnessNetwork ==
    /\ generation = "current"
    /\ submission = Idle
    /\ Len(history) >= 1
    /\ error = Str("Failed to fetch")

C26_WitnessBody ==
    /\ generation = "current"
    /\ submission = Idle
    /\ Len(history) >= 1
    /\ error = Str("network error")


\* the fetch of a submission settles (a response, a rejection, an unreadable
\* body), and so does the promise of play
SpecStudioFair ==
    SpecStudio /\ WF_vars(SynthesizeResponse) /\ WF_vars(PlaySettles)

\* C25: every submission that sets isLoading sets it back: after a render with
\* any playback result, after a non-OK response and after a network or
\* body-read error, so the submit control does not stay disabled
C25_LoadingEnds == isLoading ~> ~isLoading

\* a submission is waiting for the result of play, the control disabled
C25_Witness ==
    /\ isLoading
    /\ submission.pc = "playing"
    /\ ~CanSubmit

\* submissions of each kind have ended and the control is enabled again
C25_WitnessEnabled ==
    /\ ~isLoading
    /\ CanSubmit
    /\ Len(succeeded) >= 2
    /\ error = Str("network error")

=============================================================================
